---------------------------- MODULE Spec2Model ----------------------------
(***************************************************************************)
(* Batch orchestration of the Primer-BLAST automation tool.                *)
(*                                                                         *)
(* The module models PrimerController (the task state machine, the stop    *)
(* flag, the statistics, the per-record retry loop), the parts of          *)
(* CoordinateService and WebAutomationService the controller relies on,   *)
(* and the two kinds of thread that drive it: worker threads running       *)
(* start_batch_processing and the front-end thread calling                 *)
(* stop_processing, close_browser and closeEvent.  Every statement of      *)
(* start_batch_processing that reads or writes state shared between        *)
(* threads is a step of its own, so that the interleavings the Python      *)
(* threads can produce are the interleavings of the model.                 *)
(*                                                                         *)
(* A third specification, SpecCalls, applies the service functions         *)
(* (parse_coordinate_line, validate_coordinates_batch, PrimerParams,       *)
(* convert_hg19_to_hg38, submit_primer_design, find_element) to single     *)
(* arguments.  A fourth, SpecSession, runs sequences of calls of           *)
(* WebAutomationService on one browser session.                            *)
(* SpecBounded is the one-worker specification with the work of each call *)
(* counted and with the worker thread scheduled fairly.                    *)
(***************************************************************************)
EXTENDS Integers, Sequences, FiniteSets, TLC

(***************************************************************************)
(* Bounds of the model.                                                    *)
(***************************************************************************)
\* Largest number of lines of one input text.
MaxLines == 2

(***************************************************************************)
(* Program constants.                                                      *)
(***************************************************************************)
\* PrimerController.max_retries: attempts of the per-record pipeline.
max_retries == 3

\* The worker threads the front end can have alive (WorkerThread objects).
Workers == {"w1", "w2"}

\* class TaskState
TaskState ==
    {"idle", "initializing", "running", "paused", "stopping", "completed", "error"}

\* The two genome-build labels of the selector.
GenomeVersions == {"hg19/GRCh37", "hg38/GRCh38"}

(***************************************************************************)
(* Text.  A token is a sequence of characters, a line a sequence of        *)
(* tokens (what str.split() yields; the blank line is the empty sequence), *)
(* an input text a sequence of lines (what str.splitlines() yields).       *)
(* "sup2" stands for the character SUPERSCRIPT TWO, for which              *)
(* str.isdigit() is true and int() raises ValueError.                      *)
(***************************************************************************)
DecimalDigits == {"0", "1", "2", "3", "4", "5", "6", "7", "8", "9"}

DigitValue(c) ==
    CASE c = "0" -> 0 [] c = "1" -> 1 [] c = "2" -> 2 [] c = "3" -> 3
      [] c = "4" -> 4 [] c = "5" -> 5 [] c = "6" -> 6 [] c = "7" -> 7
      [] c = "8" -> 8 [] c = "9" -> 9

\* str.lower() on one character.
LowerChar(c) ==
    CASE c = "C" -> "c" [] c = "H" -> "h" [] c = "R" -> "r"
      [] c = "X" -> "x" [] c = "Y" -> "y" [] c = "F" -> "f"
      [] c = "O" -> "o" [] OTHER -> c

\* str.lower()
Lower(s) == [i \in 1..Len(s) |-> LowerChar(s[i])]

\* str.replace("chr", ""): every non-overlapping occurrence, left to right.
RECURSIVE ReplaceChr(_)
ReplaceChr(s) ==
    IF Len(s) < 3 THEN s
    ELSE IF SubSeq(s, 1, 3) = <<"c", "h", "r">>
         THEN ReplaceChr(SubSeq(s, 4, Len(s)))
         ELSE <<Head(s)>> \o ReplaceChr(Tail(s))

\* str.isdigit(): non-empty and every character a digit character.
IsDigit(s) == Len(s) > 0 /\ \A i \in 1..Len(s) : s[i] \in DecimalDigits \cup {"sup2"}

\* The value of a string of decimal digits.
RECURSIVE DecimalValue(_)
DecimalValue(s) ==
    IF Len(s) = 0 THEN 0
    ELSE 10 * DecimalValue(SubSeq(s, 1, Len(s) - 1)) + DigitValue(s[Len(s)])

IsDecimal(s) == Len(s) > 0 /\ \A i \in 1..Len(s) : s[i] \in DecimalDigits

\* int(s): an optional sign and decimal digits; anything else raises ValueError.
IntParses(s) ==
    \/ IsDecimal(s)
    \/ Len(s) > 1 /\ s[1] \in {"+", "-"} /\ IsDecimal(Tail(s))

IntValue(s) ==
    IF IsDecimal(s) THEN DecimalValue(s)
    ELSE IF s[1] = "-" THEN 0 - DecimalValue(Tail(s)) ELSE DecimalValue(Tail(s))

\* CoordinateService.ALLOWED_CHROMOSOMES: str(i) for i in 1..24, "x", "y".
DigitChar(d) ==
    CASE d = 0 -> "0" [] d = 1 -> "1" [] d = 2 -> "2" [] d = 3 -> "3"
      [] d = 4 -> "4" [] d = 5 -> "5" [] d = 6 -> "6" [] d = 7 -> "7"
      [] d = 8 -> "8" [] d = 9 -> "9"

Str(i) == IF i < 10 THEN <<DigitChar(i)>> ELSE <<DigitChar(i \div 10), DigitChar(i % 10)>>

ALLOWED_CHROMOSOMES == {Str(i) : i \in 1..24} \cup {<<"x">>, <<"y">>}

CHR_MAPPING_HG19 ==
    { <<<<"1">>, "NC_000001.10">>,
      <<<<"2">>, "NC_000002.11">>,
      <<<<"3">>, "NC_000003.11">>,
      <<<<"4">>, "NC_000004.11">>,
      <<<<"5">>, "NC_000005.9">>,
      <<<<"6">>, "NC_000006.11">>,
      <<<<"7">>, "NC_000007.13">>,
      <<<<"8">>, "NC_000008.10">>,
      <<<<"9">>, "NC_000009.11">>,
      <<<<"1","0">>, "NC_000010.10">>,
      <<<<"1","1">>, "NC_000011.9">>,
      <<<<"1","2">>, "NC_000012.11">>,
      <<<<"1","3">>, "NC_000013.10">>,
      <<<<"1","4">>, "NC_000014.8">>,
      <<<<"1","5">>, "NC_000015.9">>,
      <<<<"1","6">>, "NC_000016.9">>,
      <<<<"1","7">>, "NC_000017.10">>,
      <<<<"1","8">>, "NC_000018.9">>,
      <<<<"1","9">>, "NC_000019.9">>,
      <<<<"2","0">>, "NC_000020.10">>,
      <<<<"2","1">>, "NC_000021.8">>,
      <<<<"2","2">>, "NC_000022.10">>,
      <<<<"x">>, "NC_000023.10">>,
      <<<<"2","3">>, "NC_000023.10">>,
      <<<<"y">>, "NC_000024.9">>,
      <<<<"2","4">>, "NC_000024.9">> }

CHR_MAPPING_HG38 ==
    { <<<<"1">>, "NC_000001.11">>,
      <<<<"2">>, "NC_000002.12">>,
      <<<<"3">>, "NC_000003.12">>,
      <<<<"4">>, "NC_000004.12">>,
      <<<<"5">>, "NC_000005.10">>,
      <<<<"6">>, "NC_000006.12">>,
      <<<<"7">>, "NC_000007.14">>,
      <<<<"8">>, "NC_000008.11">>,
      <<<<"9">>, "NC_000009.12">>,
      <<<<"1","0">>, "NC_000010.11">>,
      <<<<"1","1">>, "NC_000011.10">>,
      <<<<"1","2">>, "NC_000012.12">>,
      <<<<"1","3">>, "NC_000013.11">>,
      <<<<"1","4">>, "NC_000014.9">>,
      <<<<"1","5">>, "NC_000015.10">>,
      <<<<"1","6">>, "NC_000016.10">>,
      <<<<"1","7">>, "NC_000017.11">>,
      <<<<"1","8">>, "NC_000018.10">>,
      <<<<"1","9">>, "NC_000019.10">>,
      <<<<"2","0">>, "NC_000020.11">>,
      <<<<"2","1">>, "NC_000021.9">>,
      <<<<"2","2">>, "NC_000022.11">>,
      <<<<"x">>, "NC_000023.11">>,
      <<<<"2","3">>, "NC_000023.11">>,
      <<<<"y">>, "NC_000024.10">>,
      <<<<"2","4">>, "NC_000024.10">> }

\* AppConfig: the accession of a chromosome key, or "None".
DictGet(table, key) ==
    IF \E e \in table : e[1] = key
    THEN (CHOOSE e \in table : e[1] = key)[2]
    ELSE "None"

(***************************************************************************)
(* CoordinateService                                                       *)
(***************************************************************************)
ParseError(msg) == [chromosome |-> <<>>, position |-> 0, error |-> msg, raises |-> FALSE]

\* CoordinateService.parse_coordinate_line: (chromosome, position, error).
\* raises: int() raised ValueError on a token str.isdigit() accepts.
parse_coordinate_line(line) ==
    IF Len(line) = 0 THEN ParseError("empty")
    ELSE IF Len(line) < 2 THEN ParseError("format")
    ELSE LET chrom_raw == ReplaceChr(Lower(line[1]))
             pos_str == line[2]
         IN  IF chrom_raw \notin ALLOWED_CHROMOSOMES THEN ParseError("chromosome")
             ELSE IF ~IsDigit(pos_str) THEN ParseError("position format")
             ELSE IF ~IntParses(pos_str)
                  THEN [chromosome |-> <<>>, position |-> 0, error |-> "None", raises |-> TRUE]
             ELSE IF IntValue(pos_str) <= 0 THEN ParseError("position value")
             ELSE [chromosome |-> chrom_raw, position |-> IntValue(pos_str),
                   error |-> "None", raises |-> FALSE]

\* CoordinateValidationResult of a valid line.
ValidResult(idx, chrom, pos) ==
    [line_number |-> idx, is_valid |-> TRUE, chromosome |-> chrom, position |-> pos]

\* CoordinateValidationResult of an invalid line.
InvalidResult(idx, msg) ==
    [line_number |-> idx, is_valid |-> FALSE, error_message |-> msg]

\* CoordinateService.validate_coordinates_batch over the first n lines.
RECURSIVE ValidateUpTo(_, _)
ValidateUpTo(lines_text, n) ==
    IF n = 0 THEN [valid |-> <<>>, invalid |-> <<>>, raises |-> FALSE]
    ELSE LET before == ValidateUpTo(lines_text, n - 1)
             line == lines_text[n]
             p == parse_coordinate_line(line)
         IN  IF before.raises THEN before
             ELSE IF Len(line) = 0 THEN before
             ELSE IF p.raises THEN [before EXCEPT !.raises = TRUE]
             ELSE IF p.error # "None"
                  THEN [before EXCEPT !.invalid = Append(@, InvalidResult(n, p.error))]
             ELSE [before EXCEPT
                      !.valid = Append(@, ValidResult(n, p.chromosome, p.position))]

validate_coordinates_batch(lines_text) == ValidateUpTo(lines_text, Len(lines_text))

\* PrimerController._parse_without_validation over the first n lines.
RECURSIVE ParseUpTo(_, _)
ParseUpTo(input_text, n) ==
    IF n = 0 THEN <<>>
    ELSE LET before == ParseUpTo(input_text, n - 1)
             parts == input_text[n]
         IN  IF Len(parts) >= 2 /\ IntParses(parts[2])
             THEN Append(before,
                         ValidResult(n, ReplaceChr(Lower(parts[1])), IntValue(parts[2])))
             ELSE before

parse_without_validation(input_text) == ParseUpTo(input_text, Len(input_text))

\* CoordinateService.get_accession
get_accession(chromosome, genome_version) ==
    IF genome_version = "hg19/GRCh37"
    THEN DictGet(CHR_MAPPING_HG19, Lower(chromosome))
    ELSE DictGet(CHR_MAPPING_HG38, Lower(chromosome))

\* CoordinateService.__init__ as called by initialize_coordinate_service: the
\* service object always exists afterwards; its liftover is None when the
\* chain file cannot be loaded.
CoordinateService(chain_loads) == IF chain_loads THEN "ready" ELSE "no_liftover"

(***************************************************************************)
(* WebAutomationService.  driver is "none" (no driver object), "alive" or  *)
(* "dead" (a driver object whose browser no longer answers).               *)
(***************************************************************************)
\* ensure_driver_alive: the value returned.
ensure_driver_alive(d) == d = "alive"

\* ensure_driver_alive: the driver field afterwards (cleared on a failed ping).
DriverAfterPing(d) == IF d = "alive" THEN "alive" ELSE "none"

\* PrimerController._ensure_browser_ready: the outcomes possible from driver d.
\* ok: the value returned; launched: setup_driver was invoked;
\* an error notification is emitted exactly when ok is FALSE.
ensure_browser_ready(d) ==
    IF ensure_driver_alive(d)
    THEN {[ok |-> TRUE, driver |-> "alive", launched |-> FALSE]}
    ELSE {[ok |-> TRUE, driver |-> "alive", launched |-> TRUE],   \* started, page open
          [ok |-> FALSE, driver |-> "none", launched |-> TRUE],   \* setup_driver failed
          [ok |-> FALSE, driver |-> "alive", launched |-> TRUE]}  \* open_primer_blast failed

\* submit_primer_design(..., max_retries=3)
submit_max_retries == 3

\* WebAutomationService.submit_primer_design: the outcomes possible from driver d.
\* passes: the passes of its fill-and-submit loop that were run: none when it
\* returns before the loop, all of them when every pass fails.
submit_primer_design(d) ==
    IF ~ensure_driver_alive(d)
    THEN {[ok |-> FALSE, driver |-> DriverAfterPing(d), passes |-> 0]}
    ELSE {[ok |-> TRUE, driver |-> d, passes |-> k] : k \in 1..submit_max_retries}
           \cup {[ok |-> FALSE, driver |-> d, passes |-> k] : k \in {0, submit_max_retries}}

\* convert_hg19_to_hg38: the chromosome name handed to the liftover backend.
FormatChromosome(chromosome) ==
    LET lowered == Lower(chromosome)
        prefixed == IF Len(lowered) >= 3 /\ SubSeq(lowered, 1, 3) = <<"c", "h", "r">>
                    THEN lowered ELSE <<"c", "h", "r">> \o lowered
    IN  IF prefixed = <<"c", "h", "r", "x">> THEN <<"c", "h", "r", "X">>
        ELSE IF prefixed = <<"c", "h", "r", "y">> THEN <<"c", "h", "r", "Y">>
        ELSE prefixed

\* The error messages of convert_hg19_to_hg38: the text, and the values
\* formatted into it.  NoError is None.
NoError == <<>>

NotInitialisedError == <<"converter not initialised">>

NoMappingError(chromosome, position) ==
    <<"no hg38 coordinate found for", chromosome, position>>

ConversionFailedError == <<"conversion failed", "exception text">>

\* What the chain file does to a position it maps: hg38 coordinates are
\* shifted against hg19 (here by the same amount everywhere).
chain_shift == 1000

\* new_pos = int(result[0][1])
LiftedPosition(position) == position + chain_shift

\* A conversion that consults the backend whether or not there is one, and
\* reports a missing backend as a locus without mapping.
convert_hg19_to_hg38_unguarded(liftover, chromosome, position) ==
    LET formatted_chrom == FormatChromosome(chromosome)
        NoMapping == [chromosome |-> <<>>, position |-> 0, lookups |-> 1,
                      backend |-> "unmapped",
                      error |-> NoMappingError(chromosome, position),
               raises |-> FALSE]
    IN  IF liftover = "none" THEN {NoMapping}
        ELSE {[chromosome |-> Lower(ReplaceChr(formatted_chrom)),
               position |-> LiftedPosition(position),
               lookups |-> 1, backend |-> "mapped", error |-> NoError, raises |-> FALSE],
              NoMapping,
              [chromosome |-> <<>>, position |-> 0, lookups |-> 1, backend |-> "raised",
               error |-> ConversionFailedError, raises |-> FALSE]}

\* A conversion without the handler around the lookup: what the backend
\* raises reaches the caller.
convert_hg19_to_hg38_unhandled(liftover, chromosome, position) ==
    LET formatted_chrom == FormatChromosome(chromosome)
    IN  IF liftover = "none"
        THEN {[chromosome |-> <<>>, position |-> 0, lookups |-> 0, backend |-> "none",
               error |-> NotInitialisedError, raises |-> FALSE]}
        ELSE {[chromosome |-> Lower(ReplaceChr(formatted_chrom)),
               position |-> LiftedPosition(position),
               lookups |-> 1, backend |-> "mapped", error |-> NoError, raises |-> FALSE],
              [chromosome |-> <<>>, position |-> 0, lookups |-> 1, backend |-> "unmapped",
               error |-> NoMappingError(chromosome, position),
               raises |-> FALSE],
              [chromosome |-> <<>>, position |-> 0, lookups |-> 1, backend |-> "raised",
               error |-> NoError, raises |-> TRUE]}

\* CoordinateService.convert_hg19_to_hg38: the outcomes possible.  liftover is
\* "none" or "loaded".  A loaded backend maps the locus (to the same
\* chromosome, at the lifted position), has no mapping for it, or raises.  chromosome
\* <<>> and position 0 stand for None; lookups counts the calls of
\* convert_coordinate, backend is what the backend answered, raises whether
\* an exception left the function.
convert_hg19_to_hg38(liftover, chromosome, position) ==
    LET formatted_chrom == FormatChromosome(chromosome)
    IN  IF liftover = "none"
        THEN {[chromosome |-> <<>>, position |-> 0, lookups |-> 0, backend |-> "none",
               error |-> NotInitialisedError, raises |-> FALSE]}
        ELSE {[chromosome |-> Lower(ReplaceChr(formatted_chrom)),
               position |-> LiftedPosition(position),
               lookups |-> 1, backend |-> "mapped", error |-> NoError, raises |-> FALSE],
              [chromosome |-> <<>>, position |-> 0, lookups |-> 1, backend |-> "unmapped",
               error |-> NoMappingError(chromosome, position),
               raises |-> FALSE],
              [chromosome |-> <<>>, position |-> 0, lookups |-> 1, backend |-> "raised",
               error |-> ConversionFailedError, raises |-> FALSE]}

\* coord_service.liftover of the service object the controller holds.
LiftOver(service) == IF service = "ready" THEN "loaded" ELSE "none"

\* PrimerController._process_single_coordinate: the outcomes possible for one
\* record.  ok: the value returned; submitted: submit_primer_design was
\* invoked; stages: the service functions called, in order; accession and
\* position: the arguments of submit_primer_design ("None" and 0 when it was
\* not invoked); passes: the passes of the fill-and-submit loop.
process_single_coordinate(result, genome_version, service, d) ==
    LET Failed(stages) ==
            [ok |-> FALSE, driver |-> d, submitted |-> FALSE, stages |-> stages,
             accession |-> "None", position |-> 0, passes |-> 0]
        Submit(chrom, pos, version, stages) ==
            IF get_accession(chrom, version) = "None"
            THEN {Failed(Append(stages, "get_accession"))}
            ELSE {[ok |-> o.ok, driver |-> o.driver, submitted |-> TRUE,
                   stages |-> stages \o <<"get_accession", "submit_primer_design">>,
                   accession |-> get_accession(chrom, version), position |-> pos,
                   passes |-> o.passes] :
                    o \in submit_primer_design(d)}
    IN  IF genome_version = "hg19/GRCh37"
        THEN IF service # "ready" THEN {Failed(<<>>)}
             ELSE UNION {IF c.error # NoError THEN {Failed(<<"convert_hg19_to_hg38">>)}
                         ELSE Submit(c.chromosome, c.position, "hg38/GRCh38",
                                     <<"convert_hg19_to_hg38">>) :
                           c \in convert_hg19_to_hg38(LiftOver(service), result.chromosome,
                                                      result.position)}
        ELSE Submit(result.chromosome, result.position, genome_version, <<>>)

(***************************************************************************)
(* The input texts of the model: every text of at most MaxLines lines      *)
(* drawn from SampleLines.                                                 *)
(***************************************************************************)
SampleLines ==
    { << <<"c", "h", "r", "1">>, <<"1", "0", "0">> >>,    \* "chr1 100"
      << <<"X">>, <<"3", "0", "0">> >>,                    \* "X 300"
      << <<"f", "o", "o">>, <<"2", "0", "0">> >>,          \* "foo 200"
      << <<"2">>, <<"sup2">> >>,                           \* "2 ²"
      << >> }                                              \* a blank line

InputTexts == UNION {[1..n -> SampleLines] : n \in 0..MaxLines}

(***************************************************************************)
(* State                                                                   *)
(***************************************************************************)
VARIABLES
    task_state,     \* PrimerController._task_state
    should_stop,    \* PrimerController.should_stop
    stats,          \* PrimerController.stats
    coord_service,  \* PrimerController.coord_service: "none", "ready", "no_liftover"
    driver,         \* WebAutomationService.driver: "none", "alive", "dead"
    chain_loads,    \* environment: pyliftover is installed and the chain file loads
    retry_log,      \* per worker: what _process_single_coordinate_with_retry did
                    \* for the record in flight: the sleeps, and the stages, the
                    \* result and the submitted locus of the latest attempt
    scenario,       \* environment: "single" (one worker thread at a time), "bounded"
                    \* (the same, with the work of each call counted), "race",
                    \* or "calls" (single calls of the services, no batch)
    call,           \* the call of a service function under way: its name, its
                    \* argument, whether it has returned, and what it returned
    pc,             \* per worker: its position in start_batch_processing
    args,           \* per worker: the arguments of its call read so far
    valid_results,  \* per worker: the local valid_results
    idx,            \* per worker: records of valid_results the loop has completed
    item_sleeps,    \* per worker: the inter-item sleeps its current call has made
    work,           \* per worker: the pipeline runs of its current call, and the
                    \* fill-and-submit passes of the latest run, counted in the
                    \* scenario "bounded"
    attempt,        \* per worker: the attempt counter of the retry loop
    emitted,        \* per worker: the signals its current call has emitted
    cause,          \* per worker: why its current call left the normal path
    stopIdx,        \* per worker: records allowed once a stop was accepted, or -1
    browserOps      \* per worker: its call launched a browser or submitted a form

vars == <<task_state, should_stop, stats, coord_service, driver, chain_loads, retry_log, scenario,
          call, pc, args, valid_results, idx, item_sleeps, work, attempt, emitted, cause, stopIdx, browserOps>>

shared == <<task_state, should_stop, stats, coord_service, driver>>

\* ProcessingStats(total=n)
ProcessingStats(n) ==
    [total |-> n, processed |-> 0, success |-> 0, failed |-> 0, skipped |-> 0]

NoArgs == [genome_version |-> "hg38/GRCh38", skip_validation |-> FALSE]

\* Positions at which a worker is not inside start_batch_processing.
Rest == {"idle", "done", "rejected"}

\* Positions of the per-record part of the loop body: a record is in flight.
InFlight == {"check_alive", "restart", "attempt", "count"}

\* Positions inside the for loop of start_batch_processing.
InLoop == {"loop_head"} \cup InFlight

\* Positions of a batch in progress (between task_started and the finally block).
InBatch == {"clear_stop", "init_service", "validate", "ensure_browser", "set_running",
            "finish"} \cup InLoop

\* No pipeline run and no fill-and-submit pass yet.
NoWork == [runs |-> 0, passes |-> 0]

\* The count after one more run of the pipeline, which made the given
\* number of fill-and-submit passes.
Worked(w, passes) ==
    IF scenario = "bounded"
    THEN [runs |-> w.runs + 1, passes |-> passes]
    ELSE w

\* _process_single_coordinate_with_retry has not run an attempt yet.
NoAttempt == [sleeps |-> <<>>, stages |-> <<>>, ok |-> FALSE,
              accession |-> "None", position |-> 0]

\* PrimerController.__init__
InitController ==
    /\ task_state = "idle"
    /\ should_stop = FALSE
    /\ stats = ProcessingStats(0)
    /\ coord_service = "none"
    /\ driver = "none"
    /\ chain_loads \in BOOLEAN
    /\ retry_log = [t \in Workers |-> NoAttempt]
    /\ pc = [t \in Workers |-> "idle"]
    /\ args = [t \in Workers |-> NoArgs]
    /\ valid_results = [t \in Workers |-> <<>>]
    /\ idx = [t \in Workers |-> 0]
    /\ item_sleeps = [t \in Workers |-> 0]
    /\ work = [t \in Workers |-> NoWork]
    /\ attempt = [t \in Workers |-> 0]
    /\ emitted = [t \in Workers |-> {}]
    /\ cause = [t \in Workers |-> "none"]
    /\ stopIdx = [t \in Workers |-> -1]
    /\ browserOps = [t \in Workers |-> FALSE]

\* No call of a service function is under way outside a batch.
NoCall == [op |-> "none", arg |-> <<>>, done |-> TRUE, out |-> <<>>]

\* One worker thread at a time (spec section 5).
Init == InitController /\ scenario = "single" /\ call = NoCall

\* The front end starts a WorkerThread on every click of the start button.
InitRace == InitController /\ scenario = "race" /\ call = NoCall

\* The worker threads that call start_batch_processing.
Callers == IF scenario = "race" THEN Workers ELSE {"w1"}

\* The arguments of a call other than input_text: either build, either mode;
\* the calls that race are made for the current build, validated.
CallArgs ==
    IF scenario = "race" THEN {NoArgs}
    ELSE IF scenario = "bounded" THEN [genome_version : GenomeVersions, skip_validation : {FALSE}]
    ELSE [genome_version : GenomeVersions, skip_validation : BOOLEAN]

(***************************************************************************)
(* PrimerController.start_batch_processing, one step per access to shared  *)
(* state.                                                                  *)
(***************************************************************************)
Emit(t, signal) == emitted' = [emitted EXCEPT ![t] = @ \cup {signal}]

\* A guard that also lets a call through while a stop is pending.
can_start_new_task_while_stopping ==
    task_state \in {"idle", "completed", "error", "stopping"}

\* PrimerController.can_start_new_task
can_start_new_task == task_state \in {"idle", "completed", "error"}

\* A rejection placed after the reset of the statistics.
StartRejected_after_reset(t) ==
    /\ pc[t] \in Rest /\ t \in Callers
    /\ ~can_start_new_task
    /\ pc' = [pc EXCEPT ![t] = "rejected"]
    /\ emitted' = [emitted EXCEPT ![t] = {"error_occurred"}]
    /\ cause' = [cause EXCEPT ![t] = "rejected"]
    /\ args' = [args EXCEPT ![t] = NoArgs]
    /\ valid_results' = [valid_results EXCEPT ![t] = <<>>]
    /\ idx' = [idx EXCEPT ![t] = 0]
    /\ item_sleeps' = [item_sleeps EXCEPT ![t] = 0]
    /\ work' = [work EXCEPT ![t] = NoWork]
    /\ attempt' = [attempt EXCEPT ![t] = 0]
    /\ stopIdx' = [stopIdx EXCEPT ![t] = -1]
    /\ browserOps' = [browserOps EXCEPT ![t] = FALSE]
    /\ stats' = ProcessingStats(0)
    /\ UNCHANGED <<task_state, should_stop, coord_service, driver, chain_loads, retry_log, scenario, call>>

\* The guard fails: the call reports the conflict and returns.
StartRejected(t) ==
    /\ pc[t] \in Rest /\ t \in Callers
    /\ ~can_start_new_task
    /\ pc' = [pc EXCEPT ![t] = "rejected"]
    /\ emitted' = [emitted EXCEPT ![t] = {"error_occurred"}]
    /\ cause' = [cause EXCEPT ![t] = "rejected"]
    /\ args' = [args EXCEPT ![t] = NoArgs]
    /\ valid_results' = [valid_results EXCEPT ![t] = <<>>]
    /\ idx' = [idx EXCEPT ![t] = 0]
    /\ item_sleeps' = [item_sleeps EXCEPT ![t] = 0]
    /\ work' = [work EXCEPT ![t] = NoWork]
    /\ attempt' = [attempt EXCEPT ![t] = 0]
    /\ stopIdx' = [stopIdx EXCEPT ![t] = -1]
    /\ browserOps' = [browserOps EXCEPT ![t] = FALSE]
    /\ UNCHANGED <<shared, chain_loads, retry_log, scenario, call>>

\* The guard passes: the call goes on to set Initializing.
StartAccepted(t) ==
    /\ pc[t] \in Rest /\ t \in Callers
    /\ can_start_new_task
    /\ \E a \in CallArgs : args' = [args EXCEPT ![t] = a]
    /\ pc' = [pc EXCEPT ![t] = "set_initializing"]
    /\ emitted' = [emitted EXCEPT ![t] = {}]
    /\ cause' = [cause EXCEPT ![t] = "none"]
    /\ valid_results' = [valid_results EXCEPT ![t] = <<>>]
    /\ idx' = [idx EXCEPT ![t] = 0]
    /\ item_sleeps' = [item_sleeps EXCEPT ![t] = 0]
    /\ work' = [work EXCEPT ![t] = NoWork]
    /\ attempt' = [attempt EXCEPT ![t] = 0]
    /\ stopIdx' = [stopIdx EXCEPT ![t] = -1]
    /\ browserOps' = [browserOps EXCEPT ![t] = FALSE]
    /\ UNCHANGED <<shared, chain_loads, retry_log, scenario, call>>

\* self.task_state = TaskState.INITIALIZING
SetInitializing(t) ==
    /\ pc[t] = "set_initializing"
    /\ task_state' = "initializing"
    /\ pc' = [pc EXCEPT ![t] = "clear_stop"]
    /\ UNCHANGED <<should_stop, stats, coord_service, driver, chain_loads, retry_log, scenario, call, args,
                   valid_results, idx, item_sleeps, work, attempt, emitted, cause, stopIdx, browserOps>>

\* self.should_stop = False; self.task_started.emit()
ClearStop(t) ==
    /\ pc[t] = "clear_stop"
    /\ should_stop' = FALSE
    /\ Emit(t, "task_started")
    /\ pc' = [pc EXCEPT ![t] = "init_service"]
    /\ UNCHANGED <<task_state, stats, coord_service, driver, chain_loads, retry_log, scenario, call, args,
                   valid_results, idx, item_sleeps, work, attempt, cause, stopIdx, browserOps>>

\* An early return or the exception handler: report, set Error, go to finally.
Abort(t, why) ==
    /\ task_state' = "error"
    /\ Emit(t, "error_occurred")
    /\ cause' = [cause EXCEPT ![t] = why]
    /\ pc' = [pc EXCEPT ![t] = "finally"]

\* if not self.coord_service: initialize_coordinate_service()
InitService(t) ==
    /\ pc[t] = "init_service"
    /\ IF coord_service = "none"
       THEN /\ coord_service' = CoordinateService(chain_loads)
            /\ IF CoordinateService(chain_loads) = "no_liftover"
               THEN Abort(t, "service")
               ELSE /\ pc' = [pc EXCEPT ![t] = "validate"]
                    /\ UNCHANGED <<task_state, emitted, cause>>
       ELSE /\ pc' = [pc EXCEPT ![t] = "validate"]
            /\ UNCHANGED <<coord_service, task_state, emitted, cause>>
    /\ UNCHANGED <<should_stop, stats, driver, chain_loads, retry_log, scenario, call, args, valid_results,
                   idx, item_sleeps, work, attempt, stopIdx, browserOps>>

\* The local valid_results of a call, by validation or by the unvalidated parse.
ParsedInput(input_text, skip_validation) ==
    IF skip_validation
    THEN [valid |-> parse_without_validation(input_text), raises |-> FALSE]
    ELSE [valid |-> validate_coordinates_batch(input_text).valid,
          raises |-> validate_coordinates_batch(input_text).raises]

\* What validation makes of the input texts of the model.
ValidatedInputs == {ParsedInput(text, FALSE) : text \in InputTexts}

\* What the unvalidated parse makes of the input texts of the model.
UnvalidatedInputs == {ParsedInput(text, TRUE) : text \in InputTexts}

\* What validation makes of the text of the calls that race: "chr1 100".
RaceInputs ==
    {ParsedInput(<< << <<"c", "h", "r", "1">>, <<"1", "0", "0">> >> >>, FALSE)}

\* What validation makes of the texts of the scenario "bounded", which are
\* up to MaxLines lines "chr1 100": a valid record for every line.
BoundedInputs ==
    {[valid |-> [i \in 1..n |-> ValidResult(i, <<"1">>, 100)], raises |-> FALSE] :
        n \in 0..MaxLines}

\* input_text is an argument of the call; nothing reads it before this step,
\* and the model draws it here, as what the parse makes of it.
ParsedInputs(skip_validation) ==
    IF scenario = "race" THEN RaceInputs
    ELSE IF scenario = "bounded" THEN BoundedInputs
    ELSE IF skip_validation THEN UnvalidatedInputs ELSE ValidatedInputs

\* A validation step that sets up the statistics before it looks whether any
\* record is valid.
ValidateInput_stats_first(t) ==
    /\ pc[t] = "validate"
    /\ \E r \in ParsedInputs(args[t].skip_validation) :
          IF r.raises
          THEN Abort(t, "exception") /\ UNCHANGED <<stats, valid_results>>
          ELSE /\ stats' = ProcessingStats(Len(r.valid))
               /\ IF r.valid = <<>>
                  THEN Abort(t, "novalid") /\ UNCHANGED valid_results
                  ELSE /\ valid_results' = [valid_results EXCEPT ![t] = r.valid]
                       /\ pc' = [pc EXCEPT ![t] = "ensure_browser"]
                       /\ UNCHANGED <<task_state, emitted, cause>>
    /\ UNCHANGED <<should_stop, coord_service, driver, chain_loads, retry_log, scenario, call, args,
                   idx, item_sleeps, work, attempt, stopIdx, browserOps>>

\* Validation (or the unvalidated parse), the empty-batch check and
\* self.stats = ProcessingStats(total=len(valid_results)).  An exception
\* raised by the validation reaches the handler of start_batch_processing.
ValidateInput(t) ==
    /\ pc[t] = "validate"
    /\ \E r \in ParsedInputs(args[t].skip_validation) :
          IF r.raises
          THEN Abort(t, "exception") /\ UNCHANGED <<stats, valid_results>>
          ELSE IF r.valid = <<>>
          THEN Abort(t, "novalid") /\ UNCHANGED <<stats, valid_results>>
          ELSE /\ stats' = ProcessingStats(Len(r.valid))
               /\ valid_results' = [valid_results EXCEPT ![t] = r.valid]
               /\ pc' = [pc EXCEPT ![t] = "ensure_browser"]
               /\ UNCHANGED <<task_state, emitted, cause>>
    /\ UNCHANGED <<should_stop, coord_service, driver, chain_loads, retry_log, scenario, call, args,
                   idx, item_sleeps, work, attempt, stopIdx, browserOps>>

\* if not self._ensure_browser_ready(browser): ERROR, return
EnsureBrowser(t) ==
    /\ pc[t] = "ensure_browser"
    /\ \E o \in ensure_browser_ready(driver) :
          /\ driver' = o.driver
          /\ browserOps' = [browserOps EXCEPT ![t] = @ \/ o.launched]
          /\ IF o.ok
             THEN /\ pc' = [pc EXCEPT ![t] = "set_running"]
                  /\ UNCHANGED <<task_state, emitted, cause>>
             ELSE Abort(t, "browser_start")
    /\ UNCHANGED <<should_stop, stats, coord_service, chain_loads, retry_log, scenario, call, args,
                   valid_results, idx, item_sleeps, work, attempt, stopIdx>>

\* self.task_state = TaskState.RUNNING
SetRunning(t) ==
    /\ pc[t] = "set_running"
    /\ task_state' = "running"
    /\ pc' = [pc EXCEPT ![t] = "loop_head"]
    /\ UNCHANGED <<should_stop, stats, coord_service, driver, chain_loads, retry_log, scenario, call, args,
                   valid_results, idx, item_sleeps, work, attempt, emitted, cause, stopIdx, browserOps>>

\* The head of the for loop: exhausted, or the stop flag is polled.
LoopHead(t) ==
    /\ pc[t] = "loop_head"
    /\ IF idx[t] = Len(valid_results[t])
       THEN /\ pc' = [pc EXCEPT ![t] = "finish"]
            /\ UNCHANGED <<task_state, emitted>>
       ELSE IF should_stop
       THEN /\ task_state' = "idle"
            /\ Emit(t, "task_stopped")
            /\ pc' = [pc EXCEPT ![t] = "finally"]
       ELSE /\ pc' = [pc EXCEPT ![t] = "check_alive"]
            /\ UNCHANGED <<task_state, emitted>>
    /\ UNCHANGED <<should_stop, stats, coord_service, driver, chain_loads, retry_log, scenario, call, args,
                   valid_results, idx, item_sleeps, work, attempt, cause, stopIdx, browserOps>>

\* if not self.web_service.ensure_driver_alive(): restart
CheckAlive(t) ==
    /\ pc[t] = "check_alive"
    /\ driver' = DriverAfterPing(driver)
    /\ pc' = [pc EXCEPT ![t] = IF ensure_driver_alive(driver) THEN "attempt" ELSE "restart"]
    /\ attempt' = [attempt EXCEPT ![t] = 0]
    /\ UNCHANGED <<task_state, should_stop, stats, coord_service, chain_loads, retry_log, scenario, call, args,
                   valid_results, idx, item_sleeps, work, emitted, cause, stopIdx, browserOps>>

\* A restart whose result is not checked: the loop goes on with the record.
RestartBrowser_unchecked(t) ==
    /\ pc[t] = "restart"
    /\ \E o \in ensure_browser_ready(driver) :
          /\ driver' = o.driver
          /\ browserOps' = [browserOps EXCEPT ![t] = @ \/ o.launched]
          /\ pc' = [pc EXCEPT ![t] = "attempt"]
          /\ IF o.ok THEN UNCHANGED emitted ELSE Emit(t, "error_occurred")
    /\ UNCHANGED <<task_state, cause, should_stop, stats, coord_service, chain_loads, retry_log, scenario, call,
                   args, valid_results, idx, item_sleeps, work, attempt, stopIdx>>

\* The restart after a failed liveness check: continue with the record, or
\* report, set Error and return.
RestartBrowser(t) ==
    /\ pc[t] = "restart"
    /\ \E o \in ensure_browser_ready(driver) :
          /\ driver' = o.driver
          /\ browserOps' = [browserOps EXCEPT ![t] = @ \/ o.launched]
          /\ IF o.ok
             THEN /\ pc' = [pc EXCEPT ![t] = "attempt"]
                  /\ UNCHANGED <<task_state, emitted, cause>>
             ELSE Abort(t, "browser_restart")
    /\ UNCHANGED <<should_stop, stats, coord_service, chain_loads, retry_log, scenario, call, args,
                   valid_results, idx, item_sleeps, work, attempt, stopIdx>>

\* Statistics that count every failed attempt as a failure.
StatsAfterAttempt_every_attempt(s, ok, k) ==
    IF ok THEN [s EXCEPT !.success = @ + 1] ELSE [s EXCEPT !.failed = @ + 1]

\* The statistics after an attempt of _process_single_coordinate_with_retry:
\* success counts the record as a success, the last failed attempt as a failure.
StatsAfterAttempt(s, ok, k) ==
    IF ok THEN [s EXCEPT !.success = @ + 1]
    ELSE IF k + 1 = max_retries THEN [s EXCEPT !.failed = @ + 1]
    ELSE s

\* self.retry_delay
retry_delay == 5

\* The sleeps of _process_single_coordinate_with_retry with the same delay
\* before every retry.
SleepBefore_constant(sleeps, k) ==
    IF k > 0 THEN Append(sleeps, retry_delay) ELSE sleeps

\* if attempt > 0: time.sleep(self.retry_delay * attempt)
SleepBefore(sleeps, k) ==
    IF k > 0 THEN Append(sleeps, retry_delay * k) ELSE sleeps

\* A retry loop without a limit: the record is tried until it succeeds.
ProcessAttempt_until_success(t) ==
    /\ pc[t] = "attempt"
    /\ \E o \in process_single_coordinate(valid_results[t][idx[t] + 1],
                                          args[t].genome_version, coord_service, driver) :
          /\ driver' = o.driver
          /\ browserOps' = [browserOps EXCEPT ![t] = @ \/ o.submitted]
          /\ stats' = StatsAfterAttempt(stats, o.ok, attempt[t])
          /\ retry_log' = [retry_log EXCEPT ![t] =
                              [sleeps |-> SleepBefore(@.sleeps, attempt[t]),
                               stages |-> o.stages, ok |-> o.ok,
                               accession |-> o.accession, position |-> o.position]]
          /\ work' = [work EXCEPT ![t] = Worked(@, o.passes)]
          /\ IF o.ok
             THEN /\ pc' = [pc EXCEPT ![t] = "count"]
                  /\ UNCHANGED attempt
             ELSE /\ attempt' = [attempt EXCEPT ![t] = @ + 1]
                  /\ UNCHANGED pc
    /\ UNCHANGED <<task_state, should_stop, coord_service, chain_loads, scenario, call, args,
                   valid_results, idx, item_sleeps, emitted, cause, stopIdx>>

\* One attempt of _process_single_coordinate_with_retry on the current record.
ProcessAttempt(t) ==
    /\ pc[t] = "attempt"
    /\ \E o \in process_single_coordinate(valid_results[t][idx[t] + 1],
                                          args[t].genome_version, coord_service, driver) :
          /\ driver' = o.driver
          /\ browserOps' = [browserOps EXCEPT ![t] = @ \/ o.submitted]
          /\ stats' = StatsAfterAttempt(stats, o.ok, attempt[t])
          /\ retry_log' = [retry_log EXCEPT ![t] =
                              [sleeps |-> SleepBefore(@.sleeps, attempt[t]),
                               stages |-> o.stages, ok |-> o.ok,
                               accession |-> o.accession, position |-> o.position]]
          /\ work' = [work EXCEPT ![t] = Worked(@, o.passes)]
          /\ IF o.ok \/ attempt[t] + 1 = max_retries
             THEN /\ pc' = [pc EXCEPT ![t] = "count"]
                  /\ UNCHANGED attempt
             ELSE /\ attempt' = [attempt EXCEPT ![t] = @ + 1]
                  /\ UNCHANGED pc
    /\ UNCHANGED <<task_state, should_stop, coord_service, chain_loads, scenario, call, args,
                   valid_results, idx, item_sleeps, emitted, cause, stopIdx>>

\* A count of the records processed that leaves out the records that failed.
CountProcessed_successes_only(t) ==
    /\ pc[t] = "count"
    /\ stats' = [stats EXCEPT !.processed = stats.success]
    /\ idx' = [idx EXCEPT ![t] = @ + 1]
    /\ item_sleeps' = [item_sleeps EXCEPT ![t] = @ + 1]
    /\ retry_log' = [retry_log EXCEPT ![t] = NoAttempt]
    /\ pc' = [pc EXCEPT ![t] = "loop_head"]
    /\ UNCHANGED <<task_state, should_stop, coord_service, driver, chain_loads, scenario, call,
                   args, valid_results, work, attempt, emitted, cause, stopIdx, browserOps>>

\* A loop that sleeps between two records only, not after the last one.
CountProcessed_sleep_between_records(t) ==
    /\ pc[t] = "count"
    /\ stats' = [stats EXCEPT !.processed = @ + 1]
    /\ idx' = [idx EXCEPT ![t] = @ + 1]
    /\ item_sleeps' = [item_sleeps EXCEPT ![t] =
                          IF idx[t] + 1 < Len(valid_results[t]) THEN @ + 1 ELSE @]
    /\ retry_log' = [retry_log EXCEPT ![t] = NoAttempt]
    /\ pc' = [pc EXCEPT ![t] = "loop_head"]
    /\ UNCHANGED <<task_state, should_stop, coord_service, driver, chain_loads, scenario, call, args,
                   valid_results, work, attempt, emitted, cause, stopIdx, browserOps>>

\* _process_single_coordinate_with_retry has returned.
\* self.stats.processed += 1; stats_updated; time.sleep(2).
CountProcessed(t) ==
    /\ pc[t] = "count"
    /\ stats' = [stats EXCEPT !.processed = @ + 1]
    /\ idx' = [idx EXCEPT ![t] = @ + 1]
    /\ item_sleeps' = [item_sleeps EXCEPT ![t] = @ + 1]
    /\ retry_log' = [retry_log EXCEPT ![t] = NoAttempt]
    /\ pc' = [pc EXCEPT ![t] = "loop_head"]
    /\ UNCHANGED <<task_state, should_stop, coord_service, driver, chain_loads, scenario, call, args,
                   valid_results, work, attempt, emitted, cause, stopIdx, browserOps>>

\* A completion that is only announced when no record failed.
Finish_only_clean(t) ==
    /\ pc[t] = "finish"
    /\ IF ~should_stop /\ stats.failed = 0
       THEN /\ task_state' = "completed"
            /\ Emit(t, "task_completed")
       ELSE UNCHANGED <<task_state, emitted>>
    /\ pc' = [pc EXCEPT ![t] = "finally"]
    /\ UNCHANGED <<should_stop, stats, coord_service, driver, chain_loads, retry_log, scenario, call, args,
                   valid_results, idx, item_sleeps, work, attempt, cause, stopIdx, browserOps>>

\* After the loop: if not self.should_stop: COMPLETED, task_completed.
Finish(t) ==
    /\ pc[t] = "finish"
    /\ IF ~should_stop
       THEN /\ task_state' = "completed"
            /\ Emit(t, "task_completed")
       ELSE UNCHANGED <<task_state, emitted>>
    /\ pc' = [pc EXCEPT ![t] = "finally"]
    /\ UNCHANGED <<should_stop, stats, coord_service, driver, chain_loads, retry_log, scenario, call, args,
                   valid_results, idx, item_sleeps, work, attempt, cause, stopIdx, browserOps>>

\* finally: if self.task_state == TaskState.RUNNING: IDLE.  The call returns.
Finally(t) ==
    /\ pc[t] = "finally"
    /\ task_state' = IF task_state = "running" THEN "idle" ELSE task_state
    /\ pc' = [pc EXCEPT ![t] = "done"]
    /\ UNCHANGED <<should_stop, stats, coord_service, driver, chain_loads, retry_log, scenario, call, args,
                   valid_results, idx, item_sleeps, work, attempt, emitted, cause, stopIdx, browserOps>>

(***************************************************************************)
(* The front-end thread and the environment.                               *)
(***************************************************************************)
\* The records a batch may still count when a stop is accepted now: those
\* completed, and the one in flight.
StopLimit(t) == idx[t] + (IF pc[t] \in InFlight THEN 1 ELSE 0)

\* PrimerController.is_running
is_running == task_state \in {"initializing", "running"}

\* PrimerController.stop_processing, under the state lock: what it does to the
\* stop flag and the task state.
StopRequest ==
    IF task_state \in {"running", "initializing"}
    THEN /\ should_stop' = TRUE
         /\ task_state' = "stopping"
         /\ stopIdx' = [t \in Workers |->
                          IF pc[t] \in InBatch /\ stopIdx[t] = -1
                          THEN StopLimit(t) ELSE stopIdx[t]]
    ELSE UNCHANGED <<should_stop, task_state, stopIdx>>

\* The front end calls stop_processing (MainWindow.stop_processing).
stop_processing ==
    /\ StopRequest
    /\ UNCHANGED <<stats, coord_service, driver, chain_loads, retry_log, scenario, call, pc, args,
                   valid_results, idx, item_sleeps, work, attempt, emitted, cause, browserOps>>

\* WebAutomationService.close_driver: quit the browser, clear the session.
close_driver == driver' = "none"

\* The front end calls PrimerController.close_browser (menu "close browser"):
\* a warning is logged while a task runs, and the driver is closed all the same.
close_browser ==
    /\ close_driver
    /\ UNCHANGED <<task_state, should_stop, stats, coord_service, chain_loads, retry_log, scenario,
                   call, pc, args, valid_results, idx, item_sleeps, work, attempt, emitted, cause, stopIdx,
                   browserOps>>

\* MainWindow.closeEvent, the user confirming: stop_processing and close_browser
\* while a task runs, close_browser otherwise.
closeEvent ==
    /\ IF is_running THEN StopRequest ELSE UNCHANGED <<should_stop, task_state, stopIdx>>
    /\ close_driver
    /\ UNCHANGED <<stats, coord_service, chain_loads, retry_log, scenario, call, pc, args,
                   valid_results, idx, item_sleeps, work, attempt, emitted, cause, browserOps>>

\* The browser is closed by the user or crashes; the driver object remains.
BrowserCrash ==
    /\ driver = "alive"
    /\ driver' = "dead"
    /\ UNCHANGED <<task_state, should_stop, stats, coord_service, chain_loads, retry_log, scenario, call, pc,
                   args, valid_results, idx, item_sleeps, work, attempt, emitted, cause, stopIdx, browserOps>>

Worker(t) ==
    \/ StartRejected(t)
    \/ StartAccepted(t)
    \/ SetInitializing(t)
    \/ ClearStop(t)
    \/ InitService(t)
    \/ ValidateInput(t)
    \/ EnsureBrowser(t)
    \/ SetRunning(t)
    \/ LoopHead(t)
    \/ CheckAlive(t)
    \/ RestartBrowser(t)
    \/ ProcessAttempt(t)
    \/ CountProcessed(t)
    \/ Finish(t)
    \/ Finally(t)

Next ==
    \/ \E t \in Workers : Worker(t)
    \/ stop_processing
    \/ close_browser
    \/ closeEvent
    \/ BrowserCrash

Spec == Init /\ [][Next]_vars

\* A step of worker t inside start_batch_processing.
BatchStep(t) ==
    \/ SetInitializing(t) \/ ClearStop(t) \/ InitService(t) \/ ValidateInput(t)
    \/ EnsureBrowser(t) \/ SetRunning(t) \/ LoopHead(t) \/ CheckAlive(t)
    \/ RestartBrowser(t) \/ ProcessAttempt(t) \/ CountProcessed(t) \/ Finish(t)
    \/ Finally(t)

\* One worker thread at a time, its work counted.
InitBounded == InitController /\ scenario = "bounded" /\ call = NoCall

\* The worker thread is scheduled, and every call and every sleep of
\* start_batch_processing returns: a call that has begun goes on.
SpecBounded == InitBounded /\ [][Next]_vars /\ WF_vars(BatchStep("w1"))

SpecRace == InitRace /\ [][Next]_vars

(***************************************************************************)
(* Single calls of the service functions.  A call is drawn when the        *)
(* behaviour starts, the function is applied in one step, and its result   *)
(* stays in call.out.  The controller takes no step.                       *)
(***************************************************************************)
controller == <<task_state, should_stop, stats, coord_service, driver, chain_loads, retry_log, scenario,
                pc, args, valid_results, idx, item_sleeps, work, attempt, emitted, cause, stopIdx, browserOps>>

\* A call of function op with argument arg that has not returned.
Pending(op, arg) == [op |-> op, arg |-> arg, done |-> FALSE, out |-> <<>>]

\* The call returns out.
Return(out) == call' = [call EXCEPT !.done = TRUE, !.out = out]

\* First tokens of the lines parsed: "chr1", "X", "24", "25", "foo", "1chr0".
ChromosomeTokens ==
    { <<"c", "h", "r", "1">>, <<"X">>, <<"2", "4">>, <<"2", "5">>,
      <<"f", "o", "o">>, <<"1", "c", "h", "r", "0">> }

\* Second tokens of the lines parsed: "100", "0", "-5", "²", "foo".
PositionTokens ==
    { <<"1", "0", "0">>, <<"0">>, <<"-", "5">>, <<"sup2">>, <<"f", "o", "o">> }

\* The lines parsed: no token, one token, two tokens, and a third token.
ParsedLines ==
    {<<>>}
      \cup {<<c>> : c \in ChromosomeTokens}
      \cup {<<c, p>> : c \in ChromosomeTokens, p \in PositionTokens}
      \cup {<<c, p, <<"f", "o", "o">> >> : c \in ChromosomeTokens, p \in PositionTokens}

\* coord_service.parse_coordinate_line(line)
ParseLine ==
    /\ call.op = "parse_coordinate_line" /\ ~call.done
    /\ Return(parse_coordinate_line(call.arg))
    /\ UNCHANGED controller

\* coord_service.validate_coordinates_batch(input_text)
ValidateBatch ==
    /\ call.op = "validate_coordinates_batch" /\ ~call.done
    /\ Return(validate_coordinates_batch(call.arg))
    /\ UNCHANGED controller

(***************************************************************************)
(* PrimerParams (a pydantic model).  Tm values are taken as integers.  The *)
(* fields that take part in no cross-field rule (primer_num_return,        *)
(* end_gc_max, max_poly_x, extension_left, extension_right) keep their     *)
(* defaults.                                                               *)
(***************************************************************************)
\* The fields, in the order of their declaration (the order of validation).
ParamFields ==
    <<"pcr_min", "pcr_max", "tm_min", "tm_opt", "tm_max", "tm_max_difference",
      "primer_min_size", "primer_opt_size", "primer_max_size">>

ParamNames == {ParamFields[i] : i \in 1..Len(ParamFields)}

\* Field(default=...)
FieldDefault(f) ==
    CASE f = "pcr_min" -> 100
      [] f = "pcr_max" -> 1200
      [] f = "tm_min" -> 58
      [] f = "tm_opt" -> 60
      [] f = "tm_max" -> 62
      [] f = "tm_max_difference" -> 2
      [] f = "primer_min_size" -> 18
      [] f = "primer_opt_size" -> 20
      [] f = "primer_max_size" -> 25

\* Field(ge=..., le=...) and Field(gt=..., lt=...)
FieldInRange(f, v) ==
    CASE f \in {"pcr_min", "pcr_max"} -> v >= 50 /\ v <= 30000
      [] f \in {"tm_min", "tm_opt", "tm_max"} -> v > 30 /\ v < 95
      [] f = "tm_max_difference" -> v >= 0 /\ v <= 10
      [] f \in {"primer_min_size", "primer_opt_size", "primer_max_size"} ->
            v >= 10 /\ v <= 40

\* The @validator of field f applied to v; values holds the fields validated
\* so far (defaults included).  TRUE: v is returned; FALSE: ValueError.
FieldValidator(f, v, values) ==
    LET has(g) == g \in DOMAIN values
    IN  CASE f = "pcr_max" -> ~(has("pcr_min") /\ v <= values["pcr_min"])
          [] f = "tm_opt" -> ~(has("tm_min") /\ v <= values["tm_min"])
          [] f = "tm_max" -> ~(has("tm_opt") /\ v <= values["tm_opt"])
          [] f = "tm_max_difference" ->
                ~(has("tm_min") /\ has("tm_max")
                    /\ v > values["tm_max"] - values["tm_min"])
          [] f = "primer_opt_size" ->
                ~(has("primer_min_size") /\ v < values["primer_min_size"])
          [] f = "primer_max_size" ->
                ~(has("primer_opt_size") /\ v < values["primer_opt_size"])
          [] OTHER -> TRUE

\* pydantic's validation of the first n fields of a construction.  A field
\* that is not given takes its default, which is not validated (no
\* validator is declared with always=True); a field that fails is left out
\* of values and recorded as an error.
RECURSIVE ValidateFields(_, _)
ValidateFields(kwargs, n) ==
    IF n = 0 THEN [values |-> <<>>, errors |-> {}]
    ELSE LET before == ValidateFields(kwargs, n - 1)
             f == ParamFields[n]
             v == kwargs[f].value
         IN  IF ~kwargs[f].given \/ (FieldInRange(f, v) /\ FieldValidator(f, v, before.values))
             THEN [before EXCEPT !.values = (f :> v) @@ @]
             ELSE [before EXCEPT !.errors = @ \cup {f}]

\* PrimerParams(**kwargs): rejected (ValidationError), or the instance.
PrimerParams(kwargs) ==
    LET r == ValidateFields(kwargs, Len(ParamFields))
    IN  [rejected |-> r.errors # {}, instance |-> r.values, raised |-> FALSE]

\* instance.f = v under Config.validate_assignment: v is validated as field f
\* against the other fields of the instance; ValidationError leaves the
\* instance as it was.
setattr(instance, f, v) ==
    LET others == [g \in DOMAIN instance \ {f} |-> instance[g]]
        accepted == FieldInRange(f, v) /\ FieldValidator(f, v, others)
    IN  [rejected |-> FALSE,
         instance |-> IF accepted THEN [instance EXCEPT ![f] = v] ELSE instance,
         raised |-> ~accepted]

\* The values a construction or an assignment is given for field f.
FieldValues(f) ==
    CASE f = "pcr_min" -> {40, 100, 5000}
      [] f = "pcr_max" -> {100, 101}
      [] f = "tm_min" -> {58, 61}
      [] f = "tm_opt" -> {60}
      [] f = "tm_max" -> {59, 62}
      [] f = "tm_max_difference" -> {2, 5}
      [] f = "primer_min_size" -> {18, 22}
      [] f = "primer_opt_size" -> {20}
      [] f = "primer_max_size" -> {19, 25}

\* A keyword argument: given with a value, or left out.
FieldArgs(f) ==
    {[given |-> FALSE, value |-> FieldDefault(f)]}
      \cup {[given |-> TRUE, value |-> v] : v \in FieldValues(f)}

\* The keyword arguments of the constructions.
ParamKwargs == [f \in ParamNames |-> FieldArgs(f)]

Constructions ==
    [pcr_min : ParamKwargs["pcr_min"], pcr_max : ParamKwargs["pcr_max"],
     tm_min : ParamKwargs["tm_min"], tm_opt : ParamKwargs["tm_opt"],
     tm_max : ParamKwargs["tm_max"],
     tm_max_difference : ParamKwargs["tm_max_difference"],
     primer_min_size : ParamKwargs["primer_min_size"],
     primer_opt_size : ParamKwargs["primer_opt_size"],
     primer_max_size : ParamKwargs["primer_max_size"]]

\* params = PrimerParams(...)
Construct ==
    /\ call.op = "PrimerParams" /\ ~call.done
    /\ Return(PrimerParams(call.arg))
    /\ UNCHANGED controller

\* params.f = v on the instance at hand, any number of times.
Assign ==
    /\ call.op \in {"PrimerParams", "setattr"} /\ call.done /\ ~call.out.rejected
    /\ \E f \in ParamNames : \E v \in FieldValues(f) \cup {FieldDefault(f)} :
          call' = [op |-> "setattr", arg |-> <<f, v>>, done |-> TRUE,
                   out |-> setattr(call.out.instance, f, v)]
    /\ UNCHANGED controller

(***************************************************************************)
(* convert_hg19_to_hg38                                                    *)
(***************************************************************************)
\* The loci converted: "1", "chr1", "X", "foo" at two positions, with and
\* without a backend.
Conversions ==
    [liftover : {"none", "loaded"},
     chromosome : {<<"1">>, <<"c", "h", "r", "1">>, <<"X">>, <<"f", "o", "o">>},
     position : {100, 200}]

\* coord_service.convert_hg19_to_hg38(chromosome, position)
ConvertBuild ==
    /\ call.op = "convert_hg19_to_hg38" /\ ~call.done
    /\ \E o \in convert_hg19_to_hg38(call.arg.liftover, call.arg.chromosome,
                                      call.arg.position) : Return(o)
    /\ UNCHANGED controller

(***************************************************************************)
(* PrimerBlastPage and submit_primer_design.  located is the set of form   *)
(* controls ElementLocator can find on the page; a page method yields      *)
(* whether it raised and the controls it set.                              *)
(***************************************************************************)
\* Controls set once, by initialize_page.
InitControls == {"one_target_tab", "advanced_button", "database", "organism"}

\* Options set once, by set_snp_and_window_options.
OptionControls == {"NO_SNP", "nw2"}

\* Controls set by update_parameters.
ParameterControls ==
    {"pcr_min", "pcr_max", "tm_min", "tm_opt", "tm_max", "tm_max_diff",
     "primer_min_size", "primer_opt_size", "primer_max_size",
     "primer_num_return", "poly_x", "end_gc_max"}

\* Controls set for every record.
RecordControls ==
    {"seq_input", "primer5_start", "primer5_end", "primer3_start", "primer3_end",
     "submit_button"}

FormControls == InitControls \cup OptionControls \cup ParameterControls \cup RecordControls

Did(controls) == [raises |-> FALSE, set |-> controls]

Raised == [raises |-> TRUE, set |-> {}]

\* Statement a, then statement b unless a raised.
Then(a, b) ==
    IF a.raises THEN a ELSE [raises |-> b.raises, set |-> a.set \cup b.set]

\* A method that sets its controls if it finds them all and raises otherwise.
SetAll(controls, located) == IF controls \subseteq located THEN Did(controls) ELSE Raised

click_one_target_tab(located) == SetAll({"one_target_tab"}, located)

click_advanced_button(located) == SetAll({"advanced_button"}, located)

set_sequence_id(located) == SetAll({"seq_input"}, located)

set_pcr_product_size(located) == SetAll({"pcr_min", "pcr_max"}, located)

set_tm_values(located) == SetAll({"tm_min", "tm_opt", "tm_max", "tm_max_diff"}, located)

set_primer_size(located) ==
    SetAll({"primer_min_size", "primer_opt_size", "primer_max_size"}, located)

set_other_parameters(located) ==
    SetAll({"primer_num_return", "poly_x", "end_gc_max"}, located)

\* A control that is not found is logged as a warning and passed over.
set_database_and_organism(located) == Did({"database", "organism"} \cap located)

\* A label that cannot be clicked is logged as a warning and passed over.
set_snp_and_window_options(located) == Did(OptionControls \cap located)

\* driver.find_element raises NoSuchElementException at the first field missing.
set_primer_range(located) ==
    Then(SetAll({"primer5_start"}, located),
         Then(SetAll({"primer5_end"}, located),
              Then(SetAll({"primer3_start"}, located),
                   SetAll({"primer3_end"}, located))))

\* Click the submit control, then wait for the result tab (TimeoutException
\* if none opens).
submit_form(located, tab_opens) ==
    IF "submit_button" \notin located THEN Raised
    ELSE [raises |-> ~tab_opens, set |-> {"submit_button"}]

\* WebAutomationService.initialize_page: succeeds unless a step raised.
initialize_page(located) ==
    Then(click_one_target_tab(located),
         Then(click_advanced_button(located),
              Then(set_database_and_organism(located),
                   set_snp_and_window_options(located))))

\* WebAutomationService.update_parameters: succeeds unless a step raised.
update_parameters(located) ==
    Then(set_pcr_product_size(located),
         Then(set_tm_values(located),
              Then(set_primer_size(located), set_other_parameters(located))))

\* One pass of the retry loop of submit_primer_design.
SubmitPass(located, tab_opens) ==
    Then(set_sequence_id(located),
         Then(set_primer_range(located), submit_form(located, tab_opens)))

\* config.RETRY_DELAY
RETRY_DELAY == 5

\* What a call of submit_primer_design did, in order: initialize_page,
\* update_parameters, a click of the submit control, a pass of the retry loop
\* (ok: none of them raised), a sleep of n seconds.  n of a pass or a click
\* is the attempt counter.
Event(op, ok, n) == [op |-> op, ok |-> ok, n |-> n]

\* The events of one pass: the click, if the pass came to it, and its end.
PassEvents(pass, k) ==
    (IF "submit_button" \in pass.set THEN <<Event("click_submit", TRUE, k)>>
     ELSE <<>>)
      \o <<Event("pass", ~pass.raises, k)>>

\* A retry loop that goes through all its passes, whether or not one succeeds.
RECURSIVE SubmitLoop_all_passes(_, _, _)
SubmitLoop_all_passes(located, tab_opens, k) ==
    LET pass == SubmitPass(located, tab_opens[k + 1])
        events == PassEvents(pass, k)
    IN  IF k < submit_max_retries - 1
        THEN LET rest == SubmitLoop_all_passes(located, tab_opens, k + 1)
             IN  [raises |-> rest.raises, set |-> pass.set \cup rest.set,
                  trace |-> events
                              \o <<Event("sleep", TRUE, (k + 1) * RETRY_DELAY)>>
                              \o rest.trace]
        ELSE [raises |-> pass.raises, set |-> pass.set, trace |-> events]

\* The retry loop of submit_primer_design from pass number k on.  The
\* controls located are the same on every pass; tab_opens[i] tells whether
\* the result tab opens in pass i.
RECURSIVE SubmitLoop(_, _, _)
SubmitLoop(located, tab_opens, k) ==
    LET pass == SubmitPass(located, tab_opens[k + 1])
        events == PassEvents(pass, k)
    IN  IF ~pass.raises THEN [raises |-> FALSE, set |-> pass.set, trace |-> events]
        ELSE IF k < submit_max_retries - 1
        THEN LET rest == SubmitLoop(located, tab_opens, k + 1)
             IN  [raises |-> rest.raises, set |-> pass.set \cup rest.set,
                  trace |-> events
                              \o <<Event("sleep", TRUE, (k + 1) * RETRY_DELAY)>>
                              \o rest.trace]
        ELSE [raises |-> TRUE, set |-> pass.set, trace |-> events]

\* A submission that goes on to fill and submit whatever update_parameters
\* returned.
SubmitOnPage_unchecked_update(d, page_initialized, located, tab_opens) ==
    LET init == IF page_initialized THEN Did({}) ELSE initialize_page(located)
        initEvents == IF page_initialized THEN <<>>
                      ELSE <<Event("initialize_page", ~init.raises, 0)>>
        update == update_parameters(located)
        updateEvents == <<Event("update_parameters", ~update.raises, 0)>>
        loop == SubmitLoop(located, tab_opens, 0)
        Result(ok, inited, controls, trace) ==
            [ok |-> ok, driver |-> DriverAfterPing(d), page_initialized |-> inited,
             set |-> controls, trace |-> trace, raises |-> FALSE]
    IN  IF ~ensure_driver_alive(d)
        THEN Result(FALSE, page_initialized /\ d = "none", {}, <<>>)
        ELSE IF init.raises THEN Result(FALSE, FALSE, init.set, initEvents)
        ELSE Result(~loop.raises, TRUE, init.set \cup update.set \cup loop.set,
                    initEvents \o updateEvents \o loop.trace)

\* WebAutomationService.submit_primer_design on a page: the value returned,
\* the session fields afterwards, the controls the call set, what it did, and
\* whether an exception left it.
SubmitOnPage(d, page_initialized, located, tab_opens) ==
    LET init == IF page_initialized THEN Did({}) ELSE initialize_page(located)
        initEvents == IF page_initialized THEN <<>>
                      ELSE <<Event("initialize_page", ~init.raises, 0)>>
        update == update_parameters(located)
        updateEvents == <<Event("update_parameters", ~update.raises, 0)>>
        loop == SubmitLoop(located, tab_opens, 0)
        Result(ok, inited, controls, trace) ==
            [ok |-> ok, driver |-> DriverAfterPing(d), page_initialized |-> inited,
             set |-> controls, trace |-> trace, raises |-> FALSE]
    IN  IF ~ensure_driver_alive(d)
        THEN Result(FALSE, page_initialized /\ d = "none", {}, <<>>)
        ELSE IF init.raises THEN Result(FALSE, FALSE, init.set, initEvents)
        ELSE IF update.raises
        THEN Result(FALSE, TRUE, init.set \cup update.set, initEvents \o updateEvents)
        ELSE Result(~loop.raises, TRUE, init.set \cup update.set \cup loop.set,
                    initEvents \o updateEvents \o loop.trace)

\* Largest number of form controls missing from a page.
MaxMissing == 1

\* The sets of at most k form controls.
RECURSIVE ControlSets(_)
ControlSets(k) ==
    IF k = 0 THEN {{}}
    ELSE LET smaller == ControlSets(k - 1)
         IN  smaller \cup {m \cup {c} : m \in smaller, c \in FormControls}

\* The pages submitted to: a session state (page_initialized only with a
\* driver object), the controls that can be found, and the passes of the
\* retry loop in which the result tab opens.
Submissions ==
    {p \in [driver : {"none", "alive", "dead"},
            page_initialized : BOOLEAN,
            located : {FormControls \ missing : missing \in ControlSets(MaxMissing)},
            tab_opens : [1..submit_max_retries -> BOOLEAN]] :
        p.page_initialized => p.driver # "none"}

\* web_service.submit_primer_design(accession, position, params)
SubmitOne ==
    /\ call.op = "submit_primer_design" /\ ~call.done
    /\ Return(SubmitOnPage(call.arg.driver, call.arg.page_initialized, call.arg.located,
                           call.arg.tab_opens))
    /\ UNCHANGED controller

(***************************************************************************)
(* PrimerBlastPage.set_primer_range: the texts typed into the range fields *)
(***************************************************************************)
\* str(n) for n >= 0
RECURSIVE StrNat(_)
StrNat(n) == IF n < 10 THEN <<DigitChar(n)>> ELSE Append(StrNat(n \div 10), DigitChar(n % 10))

\* str(i)
StrInt(i) == IF i < 0 THEN <<"-">> \o StrNat(0 - i) ELSE StrNat(i)

\* max(1, v)
AtLeastOne(v) == IF v > 1 THEN v ELSE 1

\* Range fields computed without the lower bound of 1.
primer_range_unclamped(position, ext_left, ext_right) ==
    [primer5_start |-> StrInt(position - ext_left),
     primer5_end |-> StrInt(position - 20),
     primer3_start |-> StrInt(position + 20),
     primer3_end |-> StrInt(position + ext_right)]

\* set_primer_range(position, ext_left, ext_right): send_keys(str(...)) into
\* the four fields, cleared before.
primer_range(position, ext_left, ext_right) ==
    [primer5_start |-> StrInt(AtLeastOne(position - ext_left)),
     primer5_end |-> StrInt(AtLeastOne(position - 20)),
     primer3_start |-> StrInt(position + 20),
     primer3_end |-> StrInt(position + ext_right)]

\* extension_left, extension_right: Field(default=800, ge=0)
ExtensionInRange(v) == v >= 0

\* The positions and the extensions of the ranges set: the extensions are
\* those that PrimerParams accepts.
PrimerRanges ==
    [position : {1, 15, 20, 21, 500},
     extension_left : {v \in {-5, 0, 10, 20, 800} : ExtensionInRange(v)},
     extension_right : {v \in {-5, 0, 10, 20, 800} : ExtensionInRange(v)}]

\* page.set_primer_range(position, params.extension_left, params.extension_right)
SetPrimerRange ==
    /\ call.op = "set_primer_range" /\ ~call.done
    /\ Return(primer_range(call.arg.position, call.arg.extension_left,
                            call.arg.extension_right))
    /\ UNCHANGED controller

(***************************************************************************)
(* ElementLocator.find_element                                             *)
(***************************************************************************)
\* self.locator_strategies, for two of the elements: the By of each strategy,
\* in order of priority.
locator_strategies ==
    [seq_input |-> <<"ID", "NAME", "CSS_SELECTOR", "XPATH">>,
     one_target_tab |-> <<"ID", "XPATH", "CSS_SELECTOR", "LINK_TEXT">>]

\* self.locator_strategies.get(element_key, [])
StrategiesOf(element_key) ==
    IF element_key \in DOMAIN locator_strategies THEN locator_strategies[element_key]
    ELSE <<>>

\* What WebDriverWait(...).until(...) does for a strategy: it returns the
\* element, or raises TimeoutException, NoSuchElementException or another
\* exception (a WebDriverException, say).
WaitOutcomes == {"found", "timeout", "no_such_element", "error"}

\* None
NoElement == <<>>

\* A search that goes through every strategy and returns the element of the
\* last one that found it.
RECURSIVE find_element_last_match(_, _, _)
find_element_last_match(element_key, outcome, i) ==
    LET strategies == StrategiesOf(element_key)
        strategy == <<element_key, strategies[i]>>
        rest == find_element_last_match(element_key, outcome, i + 1)
    IN  IF i > Len(strategies)
        THEN [element |-> NoElement, tried |-> <<>>, raises |-> FALSE]
        ELSE [element |-> IF rest.element = NoElement /\ outcome[strategies[i]] = "found"
                          THEN strategy ELSE rest.element,
              tried |-> <<strategy>> \o rest.tried, raises |-> FALSE]

\* A search that only handles NoSuchElementException and TimeoutException.
RECURSIVE find_element_unhandled_error(_, _, _)
find_element_unhandled_error(element_key, outcome, i) ==
    LET strategies == StrategiesOf(element_key)
        strategy == <<element_key, strategies[i]>>
        rest == find_element_unhandled_error(element_key, outcome, i + 1)
    IN  IF i > Len(strategies)
        THEN [element |-> NoElement, tried |-> <<>>, raises |-> FALSE]
        ELSE IF outcome[strategies[i]] = "found"
        THEN [element |-> strategy, tried |-> <<strategy>>, raises |-> FALSE]
        ELSE IF outcome[strategies[i]] = "error"
        THEN [element |-> NoElement, tried |-> <<strategy>>, raises |-> TRUE]
        ELSE [element |-> rest.element, tried |-> <<strategy>> \o rest.tried,
              raises |-> rest.raises]

\* ElementLocator.find_element from strategy number i on: the element
\* returned (the strategy that located it stands for it), the strategies
\* evaluated, in order, and whether an exception left the call.
RECURSIVE find_element(_, _, _)
find_element(element_key, outcome, i) ==
    LET strategies == StrategiesOf(element_key)
        strategy == <<element_key, strategies[i]>>
        rest == find_element(element_key, outcome, i + 1)
    IN  IF i > Len(strategies)
        THEN [element |-> NoElement, tried |-> <<>>, raises |-> FALSE]
        ELSE IF outcome[strategies[i]] = "found"
        THEN [element |-> strategy, tried |-> <<strategy>>, raises |-> FALSE]
        ELSE [element |-> rest.element, tried |-> <<strategy>> \o rest.tried,
              raises |-> rest.raises]

\* The searches: a key with strategies, or a key without, and what each
\* strategy of the key does.
Searches ==
    UNION {[element_key : {key},
            outcome : [{StrategiesOf(key)[i] : i \in 1..Len(StrategiesOf(key))}
                         -> WaitOutcomes]] :
             key \in DOMAIN locator_strategies \cup {"no_such_key"}}

\* locator.find_element(element_key)
FindElement ==
    /\ call.op = "find_element" /\ ~call.done
    /\ Return(find_element(call.arg.element_key, call.arg.outcome, 1))
    /\ UNCHANGED controller

\* The calls drawn.
PendingCalls ==
    {Pending("parse_coordinate_line", line) : line \in ParsedLines}
      \cup {Pending("validate_coordinates_batch", text) : text \in InputTexts}
      \cup {Pending("PrimerParams", kwargs) : kwargs \in Constructions}
      \cup {Pending("convert_hg19_to_hg38", locus) : locus \in Conversions}
      \cup {Pending("submit_primer_design", page) : page \in Submissions}
      \cup {Pending("find_element", search) : search \in Searches}
      \cup {Pending("set_primer_range", range) : range \in PrimerRanges}

InitCalls == InitController /\ scenario = "calls" /\ call \in PendingCalls

NextCalls ==
    \/ ParseLine
    \/ ValidateBatch
    \/ Construct
    \/ Assign
    \/ ConvertBuild
    \/ SubmitOne
    \/ FindElement
    \/ SetPrimerRange

SpecCalls == InitCalls /\ [][NextCalls]_vars

(***************************************************************************)
(* The browser session of WebAutomationService over a sequence of calls.   *)
(* A session is the fields driver, page (the page object exists),          *)
(* page_initialized and current_browser, and inits: how many times         *)
(* initialize_page has succeeded in the browser launched last.  The front  *)
(* end may close the browser while submit_primer_design is inside          *)
(* initialize_page (the menu action is enabled during a batch).            *)
(***************************************************************************)
\* WebAutomationService.__init__
NoSession ==
    [driver |-> "none", page |-> FALSE, page_initialized |-> FALSE,
     current_browser |-> "None", inits |-> 0]

\* The browsers asked for; setup_driver knows Edge and Chrome.
Browsers == {"Edge", "Chrome", "Firefox"}

SupportedBrowsers == {"Edge", "Chrome"}

\* setup_driver(browser, retry=2)
setup_retry == 2

\* WebAutomationService.ensure_driver_alive on a session.
EnsureDriverAlive(s) ==
    IF s.driver = "none" THEN [ok |-> FALSE, session |-> s, raises |-> FALSE]
    ELSE IF s.driver = "alive" THEN [ok |-> TRUE, session |-> s, raises |-> FALSE]
    ELSE [ok |-> FALSE,
          session |-> [s EXCEPT !.driver = "none", !.page = FALSE,
                                !.page_initialized = FALSE],
          raises |-> FALSE]

\* WebAutomationService.close_driver on a session.
CloseDriver(s) ==
    IF s.driver = "none" THEN s
    ELSE [s EXCEPT !.driver = "none", !.page = FALSE, !.page_initialized = FALSE,
                   !.current_browser = "None"]

\* A launch loop in which the ValueError for an unknown browser is raised
\* outside the handler.
RECURSIVE Launch_unsupported_raises(_, _, _, _, _)
Launch_unsupported_raises(s, browser, retry, launch, k) ==
    IF browser \notin SupportedBrowsers
    THEN [ok |-> FALSE, session |-> s, attempts |-> k + 1, raises |-> TRUE]
    ELSE IF k = retry
    THEN [ok |-> FALSE, session |-> s, attempts |-> k, raises |-> FALSE]
    ELSE IF launch[k + 1]
    THEN [ok |-> TRUE,
          session |-> [s EXCEPT !.driver = "alive", !.page = TRUE,
                                !.current_browser = browser, !.inits = 0],
          attempts |-> k + 1, raises |-> FALSE]
    ELSE Launch_unsupported_raises([s EXCEPT !.driver = "none", !.page = FALSE],
                                   browser, retry, launch, k + 1)

\* The launch loop of setup_driver from attempt k on: launch[i] tells whether
\* the webdriver of attempt i starts.  attempts counts the passes made.
RECURSIVE Launch(_, _, _, _, _)
Launch(s, browser, retry, launch, k) ==
    IF k = retry
    THEN [ok |-> FALSE, session |-> s, attempts |-> k, raises |-> FALSE]
    ELSE IF browser \in SupportedBrowsers /\ launch[k + 1]
    THEN [ok |-> TRUE,
          session |-> [s EXCEPT !.driver = "alive", !.page = TRUE,
                                !.current_browser = browser, !.inits = 0],
          attempts |-> k + 1, raises |-> FALSE]
    ELSE Launch([s EXCEPT !.driver = "none", !.page = FALSE],
                browser, retry, launch, k + 1)

\* WebAutomationService.setup_driver on a session.
SetupDriver(s, browser, retry, launch) ==
    LET alive == EnsureDriverAlive(s)
    IN  IF alive.ok /\ s.current_browser = browser
        THEN [ok |-> TRUE, session |-> s, attempts |-> 0, raises |-> FALSE]
        ELSE IF alive.ok THEN Launch(CloseDriver(s), browser, retry, launch, 0)
        ELSE Launch(alive.session, browser, retry, launch, 0)

\* submit_primer_design up to the last page call of initialize_page: the
\* call has returned failure (phase "returned"), or goes on with
\* page_initialized = True (phase "initialised") or with update_parameters.
SubmitBegin(s, located) ==
    LET alive == EnsureDriverAlive(s)
        init == initialize_page(located)
    IN  IF ~alive.ok
        THEN [phase |-> "returned", ok |-> FALSE, session |-> alive.session,
              trace |-> <<>>, raises |-> FALSE]
        ELSE IF s.page_initialized
        THEN [phase |-> "update", ok |-> FALSE, session |-> s, trace |-> <<>>,
              raises |-> FALSE]
        ELSE IF init.raises
        THEN [phase |-> "returned", ok |-> FALSE, session |-> s,
              trace |-> <<Event("initialize_page", FALSE, 0)>>, raises |-> FALSE]
        ELSE [phase |-> "initialised", ok |-> FALSE, session |-> s, trace |-> <<>>,
              raises |-> FALSE]

\* The rest of submit_primer_design on session s as it is now: the flag is
\* set, then update_parameters and the retry loop.  Without a page object
\* update_parameters raises AttributeError.
SubmitEnd(s, phase, located, tab_opens) ==
    LET flagged == IF phase = "initialised"
                   THEN [s EXCEPT !.page_initialized = TRUE, !.inits = @ + 1]
                   ELSE s
        initEvents == IF phase = "initialised"
                      THEN <<Event("initialize_page", TRUE, 0)>> ELSE <<>>
        update == IF flagged.page THEN update_parameters(located) ELSE Raised
        updateEvents == <<Event("update_parameters", ~update.raises, 0)>>
        loop == SubmitLoop(located, tab_opens, 0)
    IN  IF update.raises
        THEN [phase |-> "returned", ok |-> FALSE, session |-> flagged,
              trace |-> initEvents \o updateEvents, raises |-> FALSE]
        ELSE [phase |-> "returned", ok |-> ~loop.raises, session |-> flagged,
              trace |-> initEvents \o updateEvents \o loop.trace, raises |-> FALSE]

\* The pages of the session: every control can be found, or one is missing
\* that initialize_page, update_parameters or the retry loop needs.
SessionPages ==
    {FormControls, FormControls \ {"one_target_tab"}, FormControls \ {"tm_opt"},
     FormControls \ {"seq_input"}}

\* The keys of ElementLocator.locator_strategies.
ConfiguredKeys == FormControls \ OptionControls

\* ElementLocator.validate_all_elements: for every configured key, whether
\* find_element returns an element.
validate_all_elements(located) == [key \in ConfiguredKeys |-> key \in located]

\* PrimerBlastPage.validate_page_elements: results.get(elem, False) for the
\* critical elements.
validate_page_elements(located) ==
    LET results == validate_all_elements(located)
    IN  \A elem \in {"seq_input", "one_target_tab", "pcr_min", "pcr_max", "submit_button"} :
           elem \in DOMAIN results /\ results[elem]

\* No validation was made.
NoResults == <<>>

\* A readiness check that gives up when the validation of the page fails
\* or raises.
EnsureBrowserReady_fatal_check(s, browser, launch, opens, located, check) ==
    LET alive == EnsureDriverAlive(s)
        setup == SetupDriver(alive.session, browser, setup_retry, launch)
        Result(ok, session, started, opened, validation, results) ==
            [ok |-> ok, session |-> session, started |-> started, opened |-> opened,
             validation |-> validation, results |-> results, raises |-> FALSE]
    IN  IF alive.ok THEN Result(TRUE, s, FALSE, FALSE, "skipped", NoResults)
        ELSE IF ~setup.ok
        THEN Result(FALSE, setup.session, FALSE, FALSE, "skipped", NoResults)
        ELSE IF ~opens THEN Result(FALSE, setup.session, TRUE, FALSE, "skipped", NoResults)
        ELSE IF check = "raises"
        THEN Result(FALSE, setup.session, TRUE, TRUE, "raised", NoResults)
        ELSE Result(validate_page_elements(located), setup.session, TRUE, TRUE,
                    IF validate_page_elements(located) THEN "passed" ELSE "failed",
                    validate_all_elements(located))

\* PrimerController._ensure_browser_ready on a session: the value returned,
\* whether the browser was started and the page opened, how the validation
\* of the page ended and what validate_all_elements returned.  launch tells
\* which launches succeed, opens whether open_primer_blast does, check
\* whether validate_page_elements runs or raises.
EnsureBrowserReady(s, browser, launch, opens, located, check) ==
    LET alive == EnsureDriverAlive(s)
        setup == SetupDriver(alive.session, browser, setup_retry, launch)
        Result(ok, session, started, opened, validation, results) ==
            [ok |-> ok, session |-> session, started |-> started, opened |-> opened,
             validation |-> validation, results |-> results, raises |-> FALSE]
    IN  IF alive.ok THEN Result(TRUE, s, FALSE, FALSE, "skipped", NoResults)
        ELSE IF ~setup.ok
        THEN Result(FALSE, setup.session, FALSE, FALSE, "skipped", NoResults)
        ELSE IF ~opens THEN Result(FALSE, setup.session, TRUE, FALSE, "skipped", NoResults)
        ELSE IF check = "raises"
        THEN Result(TRUE, setup.session, TRUE, TRUE, "raised", NoResults)
        ELSE Result(TRUE, setup.session, TRUE, TRUE,
                    IF validate_page_elements(located) THEN "passed" ELSE "failed",
                    validate_all_elements(located))

\* The session as the last step left it.
Session == call.out.session

\* A call on the session that has returned.
Returned(op, arg, out) == call' = [op |-> op, arg |-> arg, done |-> TRUE, out |-> out]

\* web_service.setup_driver(browser, retry)
SessionSetup ==
    /\ call.done
    /\ \E browser \in Browsers, retry \in 1..setup_retry,
          launch \in [1..setup_retry -> BOOLEAN] :
          Returned("setup_driver",
                   [session |-> Session, browser |-> browser, retry |-> retry,
                    launch |-> launch],
                   SetupDriver(Session, browser, retry, launch))
    /\ UNCHANGED controller

\* controller._ensure_browser_ready(browser)
SessionEnsureReady ==
    /\ call.done
    /\ \E browser \in Browsers, launch \in [1..setup_retry -> BOOLEAN], opens \in BOOLEAN,
          located \in SessionPages, check \in {"runs", "raises"} :
          Returned("_ensure_browser_ready",
                   [session |-> Session, browser |-> browser, launch |-> launch,
                    opens |-> opens, located |-> located, check |-> check],
                   EnsureBrowserReady(Session, browser, launch, opens, located, check))
    /\ UNCHANGED controller

\* web_service.ensure_driver_alive()
SessionPing ==
    /\ call.done
    /\ Returned("ensure_driver_alive", [session |-> Session], EnsureDriverAlive(Session))
    /\ UNCHANGED controller

\* web_service.submit_primer_design(...) begins.
SessionSubmitBegin ==
    /\ call.done
    /\ \E located \in SessionPages, tab_opens \in [1..submit_max_retries -> BOOLEAN] :
          LET begun == SubmitBegin(Session, located)
          IN  call' = [op |-> "submit_primer_design",
                       arg |-> [session |-> Session, located |-> located,
                                tab_opens |-> tab_opens],
                       done |-> begun.phase = "returned", out |-> begun]
    /\ UNCHANGED controller

\* web_service.submit_primer_design(...) goes on and returns.
SessionSubmitEnd ==
    /\ call.op = "submit_primer_design" /\ ~call.done
    /\ Return(SubmitEnd(Session, call.out.phase, call.arg.located, call.arg.tab_opens))
    /\ UNCHANGED controller

\* The front end's close_browser: web_service.close_driver(), between calls
\* of the worker or while submit_primer_design is under way.
SessionClose ==
    /\ Session.driver # "none"
    /\ IF call.done
       THEN Returned("close_driver", [session |-> Session],
                     [ok |-> TRUE, session |-> CloseDriver(Session), raises |-> FALSE])
       ELSE call' = [call EXCEPT !.out.session = CloseDriver(Session)]
    /\ UNCHANGED controller

\* The browser window is closed or the browser dies, between calls.
SessionCrash ==
    /\ call.done /\ Session.driver = "alive"
    /\ Returned("crash", [session |-> Session],
                [ok |-> TRUE, session |-> [Session EXCEPT !.driver = "dead"],
                 raises |-> FALSE])
    /\ UNCHANGED controller

InitSession ==
    /\ InitController /\ scenario = "session"
    /\ call = [op |-> "WebAutomationService", arg |-> [session |-> NoSession], done |-> TRUE,
               out |-> [ok |-> TRUE, session |-> NoSession, raises |-> FALSE]]

NextSession ==
    \/ SessionSetup
    \/ SessionEnsureReady
    \/ SessionPing
    \/ SessionSubmitBegin
    \/ SessionSubmitEnd
    \/ SessionClose
    \/ SessionCrash

SpecSession == InitSession /\ [][NextSession]_vars


(***************************************************************************)
(* Properties                                                              *)
(***************************************************************************)
\* A step of worker t that evaluates the guard of start_batch_processing
\* and is visible in t's position.
Calls(t) == pc[t] \in Rest /\ pc'[t] # pc[t]

\* The batch of worker t ended as a completed batch.
EndedCompleted(t) ==
    /\ task_state = "completed"
    /\ "task_completed" \in emitted[t]
    /\ stats.processed = stats.total

\* C1: a call of start_batch_processing passes the guard (and goes on to set
\* Initializing and emit task_started) only if the task state is Idle,
\* Completed or Error when the guard is evaluated; a call that finds
\* Initializing, Running or Stopping is rejected: it emits an error
\* notification, emits no task_started and holds no batch afterwards.
C1_StartOnlyFromIdleCompletedError ==
    [][\A t \in Workers :
          /\ (Calls(t) /\ pc'[t] = "set_initializing")
                => task_state \in {"idle", "completed", "error"}
          /\ (Calls(t) /\ task_state \in {"initializing", "running", "stopping"})
                => /\ pc'[t] = "rejected"
                   /\ emitted'[t] = {"error_occurred"}
                   /\ valid_results'[t] = <<>>
          /\ (pc[t] = "set_initializing" /\ pc'[t] # pc[t])
                => (pc'[t] = "clear_stop" /\ task_state' = "initializing")
          /\ (pc[t] = "clear_stop" /\ pc'[t] # pc[t])
                => /\ task_state' = task_state
                   /\ "task_started" \in emitted'[t]]_vars

\* C1 witness: a call was rejected while another call's batch is initializing.
C1_Witness ==
    \E t, u \in Workers :
        /\ pc[t] = "rejected" /\ emitted[t] = {"error_occurred"}
        /\ pc[u] \in InBatch /\ task_state = "initializing"

\* C2: at most one batch loop is active at any time.
C2_AtMostOneBatchLoop == Cardinality({t \in Workers : pc[t] \in InLoop}) <= 1

\* C3: a call that is rejected leaves the task state, the stop flag and every
\* counter of ProcessingStats as they were.
C3_RejectedCallChangesNothing ==
    [][\A t \in Workers :
          (pc[t] \in {"idle", "done"} /\ pc'[t] = "rejected")
             => /\ task_state' = task_state
                /\ stats' = stats
                /\ should_stop' = should_stop]_vars

\* C3 witness: a call was rejected while another call's batch is Running
\* and has counted a record.
C3_Witness ==
    \E t, u \in Workers :
        /\ pc[t] = "rejected" /\ pc[u] \in InLoop
        /\ task_state = "running" /\ stats.processed >= 1

\* C4: a batch in which a stop request was accepted, and which met no
\* failure, has reached Idle and emitted task_stopped when its call returns.
C4_AcceptedStopEndsIdle ==
    \A t \in Workers :
        (pc[t] = "done" /\ stopIdx[t] # -1 /\ cause[t] = "none")
           => (task_state = "idle" /\ "task_stopped" \in emitted[t])

\* C5: once a stop request has been accepted, the batch takes no record in
\* hand beyond the one in flight when the request arrived.
C5_NoRecordAfterAcceptedStop ==
    \A t \in Workers : stopIdx[t] # -1 => StopLimit(t) <= stopIdx[t]

\* C6: the only transition out of Stopping is to Idle.
C6_StoppingOnlyToIdle ==
    [][task_state = "stopping" => task_state' \in {"stopping", "idle"}]_vars

\* C7 as stated: a batch that was accepted, met no stop request, no failure
\* of the browser to start or restart and no unhandled exception, has ended
\* Completed, with task_completed emitted and processed = total, when its
\* call returns.
C7_EveryAcceptedBatchCompletes ==
    \A t \in Workers :
        (/\ pc[t] = "done" /\ "task_started" \in emitted[t]
         /\ stopIdx[t] = -1
         /\ cause[t] \notin {"browser_start", "browser_restart", "exception"})
           => EndedCompleted(t)

\* C7 as amended: a batch that was accepted, whose conversion service
\* initialised, whose input held at least one valid record, and which met no
\* stop request, no failure of the browser to start or restart and no
\* unhandled exception, has ended Completed, with task_completed emitted and
\* processed = total, when its call returns, however many records failed.
C7_BatchWithRecordsCompletes ==
    \A t \in Workers :
        (/\ pc[t] = "done" /\ "task_started" \in emitted[t]
         /\ stopIdx[t] = -1
         /\ cause[t] = "none")
           => EndedCompleted(t)

\* C7 witness: a batch ended Completed although one of its records failed.
C7_Witness ==
    \E t \in Workers :
        /\ pc[t] = "done" /\ cause[t] = "none" /\ stopIdx[t] = -1
        /\ task_state = "completed" /\ stats.failed >= 1 /\ stats.success >= 1

\* C8: while the conversion backend is unavailable no call performs a browser
\* operation, and every accepted call that has returned ended in Error with
\* an error notification.
C8_NoBrowserWorkWithoutBackend ==
    ~chain_loads =>
        \A t \in Workers :
            /\ ~browserOps[t]
            /\ (pc[t] = "done" /\ "task_started" \in emitted[t])
                  => (task_state = "error" /\ "error_occurred" \in emitted[t])

\* C9: a record's attempts begin only after the liveness check; a dead
\* session leads to exactly one restart; a restart that succeeds continues
\* with the same record, one that fails sets Error, reports an error and
\* ends the batch without another record being processed.
C9_OneRestartThenContinueOrAbort ==
    [][\A t \in Workers :
          /\ (pc'[t] = "attempt" /\ pc[t] # "attempt")
                => \/ pc[t] = "check_alive" /\ driver = "alive"
                   \/ pc[t] = "restart" /\ driver' = "alive"
          /\ (pc'[t] = "restart" /\ pc[t] # "restart")
                => (pc[t] = "check_alive" /\ driver # "alive")
          /\ (pc[t] = "check_alive" /\ pc'[t] # pc[t])
                => pc'[t] = (IF driver = "alive" THEN "attempt" ELSE "restart")
          /\ (pc[t] = "restart" /\ pc'[t] # pc[t])
                => \/ /\ pc'[t] = "attempt"
                      /\ idx'[t] = idx[t] /\ task_state' = task_state /\ stats' = stats
                   \/ /\ pc'[t] = "finally"
                      /\ task_state' = "error"
                      /\ "error_occurred" \in emitted'[t]
                      /\ cause'[t] = "browser_restart"
          /\ cause[t] = "browser_restart"
                => (pc[t] \in {"finally", "done"} /\ stats' = stats)]_vars

\* C9 witness: a batch ended in Error on a failed restart after one record
\* and before its last.
C9_Witness ==
    \E t \in Workers :
        /\ pc[t] = "done" /\ cause[t] = "browser_restart"
        /\ task_state = "error" /\ "error_occurred" \in emitted[t]
        /\ stats.processed = 1 /\ stats.total = 2

\* C10: the attempt that exhausts a record's retry budget adds exactly 1 to
\* failed, leaves the task state (Running, unless a stop is pending) and the
\* emitted outcome alone, and hands the record on to be counted; an attempt
\* that fails earlier changes no counter.
C10_ExhaustedRecordIsCountedFailed ==
    [][\A t \in Workers :
          /\ (pc[t] = "attempt" /\ pc'[t] # pc[t])
                => /\ pc'[t] = "count"
                   /\ task_state' = task_state
                   /\ emitted'[t] = emitted[t]
                   /\ stats'.processed = stats.processed
                   /\ \/ /\ stats'.success = stats.success + 1
                         /\ stats'.failed = stats.failed
                      \/ /\ attempt[t] + 1 = max_retries
                         /\ stats'.failed = stats.failed + 1
                         /\ stats'.success = stats.success
          /\ (pc[t] = "attempt" /\ pc'[t] = pc[t])
                => (stats' = stats /\ attempt'[t] \in {attempt[t], attempt[t] + 1})
          /\ (pc[t] = "count" /\ stopIdx[t] = -1) => task_state = "running"
          /\ (pc[t] = "count" /\ pc'[t] # pc[t]) => pc'[t] = "loop_head"]_vars

\* C10 witness: the first record failed and the second is being attempted,
\* the task state still Running.
C10_Witness ==
    \E t \in Workers :
        /\ pc[t] = "attempt" /\ idx[t] = 1
        /\ stats.failed = 1 /\ stats.processed = 1
        /\ task_state = "running"

\* Positions of a batch after its statistics were initialised.
Counting == {"ensure_browser", "set_running", "finish"} \cup InLoop

\* C11: a record whose attempts are over adds exactly 1 to success or to
\* failed, and its count adds exactly 1 to processed; so at every item
\* boundary processed = success + failed <= total; while the batch runs total
\* stays what it was set to, skipped stays 0 and no counter decreases.
C11_CountersConsistentAtItemBoundaries ==
    /\ [](\A t \in Workers :
             pc[t] \in Counting =>
                /\ stats.total = Len(valid_results[t])
                /\ stats.skipped = 0
                /\ stats.processed = idx[t]
                /\ stats.processed <= stats.total
                /\ stats.success + stats.failed =
                      stats.processed + (IF pc[t] = "count" THEN 1 ELSE 0))
    /\ [][\A t \in Workers :
             /\ (pc[t] \in Counting /\ pc'[t] \in Counting \cup {"finally"}) =>
                   /\ stats'.total = stats.total
                   /\ stats'.skipped = stats.skipped
                   /\ stats'.processed >= stats.processed
                   /\ stats'.success >= stats.success
                   /\ stats'.failed >= stats.failed
             /\ (pc[t] = "attempt" /\ pc'[t] = "count") =>
                   /\ stats'.success + stats'.failed = stats.success + stats.failed + 1
                   /\ stats'.processed = stats.processed
             /\ (pc[t] = "count" /\ pc'[t] # pc[t]) =>
                   /\ stats'.processed = stats.processed + 1
                   /\ stats'.success = stats.success
                   /\ stats'.failed = stats.failed]_vars

\* C11 witness: a batch of two records is over, one record succeeded and the
\* other failed.
C11_Witness ==
    \E t \in Workers :
        /\ pc[t] = "finish" /\ stats.total = 2 /\ stats.processed = 2
        /\ stats.success = 1 /\ stats.failed = 1

\* A record that validation rejects: unsupported chromosome or a position
\* that is not positive.
FailsValidation(result) ==
    result.chromosome \notin ALLOWED_CHROMOSOMES \/ result.position <= 0

\* C12: no record that fails validation enters the per-record pipeline, in
\* either validation mode.
C12_InvalidLineNeverInPipeline ==
    \A t \in Workers :
        pc[t] \in InFlight => ~FailsValidation(valid_results[t][idx[t] + 1])

\* Positions of a call before its input is parsed.
BeforeParse == {"set_initializing", "clear_stop", "init_service", "validate"}

\* C13: a call whose input yields no valid record, in either validation
\* mode, reports an error, sets Error and returns; it performs no browser
\* operation and leaves the statistics of the previous batch as they were.
C13_EmptyBatchAborts ==
    /\ [](\A t \in Workers :
             cause[t] \in {"novalid", "exception"} =>
                /\ pc[t] \in {"finally", "done"}
                /\ task_state = "error"
                /\ "error_occurred" \in emitted[t]
                /\ "task_completed" \notin emitted[t]
                /\ ~browserOps[t]
                /\ valid_results[t] = <<>>)
    /\ [][\A t \in Workers :
             /\ (pc[t] = "validate" /\ pc'[t] = "ensure_browser") =>
                   (valid_results'[t] # <<>> /\ stats'.total = Len(valid_results'[t]))
             /\ (pc[t] = "validate" /\ pc'[t] = "finally") =>
                   /\ cause'[t] \in {"novalid", "exception"}
                   /\ stats' = stats /\ driver' = driver
             /\ (pc[t] \in BeforeParse /\ pc'[t] \in BeforeParse) => stats' = stats
             /\ cause[t] \in {"novalid", "exception"} =>
                   (stats' = stats /\ browserOps'[t] = browserOps[t])]_vars

\* C13 witness: an unvalidated call ended in Error for want of a record; the
\* statistics are those of the batch before it, which processed two records.
C13_Witness ==
    \E t \in Workers :
        /\ pc[t] = "done" /\ cause[t] = "novalid" /\ args[t].skip_validation
        /\ task_state = "error" /\ stats.total = 2 /\ stats.processed = 2

\* A step of the worker thread that runs the batch loop of t.
LoopStep(t) == pc[t] \in InLoop /\ (pc'[t] # pc[t] \/ attempt'[t] # attempt[t])

\* C14: while a batch loop is active, the driver handle is written only by
\* the worker thread that runs the loop (the browser itself may die: the
\* handle then refers to a dead browser).
C14_DriverTouchedOnlyByWorker ==
    [][((\E t \in Workers : pc[t] \in InLoop) /\ driver' # driver)
          => \/ \E t \in Workers : LoopStep(t)
             \/ driver = "alive" /\ driver' = "dead"]_vars

\* The controls a submission has to set: those of the parameters and of the
\* record, and those set once if the page is not initialised yet.
RequiredControls(page_initialized) ==
    ParameterControls \cup RecordControls
      \cup (IF page_initialized THEN {} ELSE InitControls)

\* C15: submit_primer_design reports success only if it located and set
\* every required control; a required control that cannot be located makes
\* the submission fail.
C15_SuccessOnlyWithEveryControlSet ==
    (call.op = "submit_primer_design" /\ call.done) =>
        /\ call.out.ok => RequiredControls(call.arg.page_initialized) \subseteq call.out.set
        /\ ~(RequiredControls(call.arg.page_initialized) \subseteq call.arg.located)
              => ~call.out.ok

\* A token with the prefix "chr" removed.
RemoveChrPrefix(s) ==
    IF Len(s) >= 3 /\ SubSeq(s, 1, 3) = <<"c", "h", "r">> THEN SubSeq(s, 4, Len(s)) ELSE s

\* The lines C16 says are accepted.
WellFormed(line) ==
    /\ Len(line) >= 2
    /\ RemoveChrPrefix(Lower(line[1])) \in ALLOWED_CHROMOSOMES
    /\ IsDecimal(line[2]) /\ DecimalValue(line[2]) > 0

\* The errors C16 allows for a line that is not accepted, by category.
ErrorCategory(line) ==
    IF Len(line) < 2 THEN {"empty", "format"}
    ELSE IF RemoveChrPrefix(Lower(line[1])) \notin ALLOWED_CHROMOSOMES THEN {"chromosome"}
    ELSE {"position format", "position value"}

\* C16: parse_coordinate_line accepts exactly the well-formed lines and
\* returns their normalised chromosome and their position without error;
\* for every other line it returns no chromosome, no position and an error
\* of the matching category.
C16_ParseLineAcceptsExactlyWellFormed ==
    (call.op = "parse_coordinate_line" /\ call.done) =>
        /\ ~call.out.raises
        /\ IF WellFormed(call.arg)
           THEN /\ call.out.error = "None"
                /\ call.out.chromosome = RemoveChrPrefix(Lower(call.arg[1]))
                /\ call.out.position = DecimalValue(call.arg[2])
           ELSE /\ call.out.chromosome = <<>> /\ call.out.position = 0
                /\ call.out.error \in ErrorCategory(call.arg)

\* The numbers of the lines of a text that are not blank.
NonBlank(text) == {i \in 1..Len(text) : text[i] # <<>>}

\* The line numbers of a list of records are increasing.
InLineOrder(records) ==
    \A i, j \in 1..Len(records) :
        i < j => records[i].line_number < records[j].line_number

\* C17: validate_coordinates_batch returns two lists that together hold one
\* record per non-blank line, each with the 1-based number of its line, and
\* each list is in line order.
C17_ValidateBatchPartitionsLines ==
    (call.op = "validate_coordinates_batch" /\ call.done) =>
        LET valid == call.out.valid
            invalid == call.out.invalid
        IN  /\ ~call.out.raises
            /\ Len(valid) + Len(invalid) = Cardinality(NonBlank(call.arg))
            /\ {valid[i].line_number : i \in 1..Len(valid)}
                  \cup {invalid[i].line_number : i \in 1..Len(invalid)}
                  = NonBlank(call.arg)
            /\ InLineOrder(valid) /\ InLineOrder(invalid)
            /\ \A i \in 1..Len(valid) :
                  parse_coordinate_line(call.arg[valid[i].line_number]).error = "None"

\* The invariants spec section 3 states of PrimerParameters.
StatedInvariants(v) ==
    /\ v["pcr_max"] > v["pcr_min"]
    /\ v["tm_min"] < v["tm_opt"] /\ v["tm_opt"] < v["tm_max"]
    /\ v["tm_max"] - v["tm_min"] >= v["tm_max_difference"]
    /\ v["primer_min_size"] <= v["primer_opt_size"]
    /\ v["primer_opt_size"] <= v["primer_max_size"]

\* The field values a construction asks for.
Requested(kwargs) == [f \in ParamNames |-> kwargs[f].value]

\* C18: a construction of PrimerParams is rejected if and only if the values
\* it asks for violate a stated invariant.
C18_RejectedIffInvariantViolated ==
    (call.op = "PrimerParams" /\ call.done) =>
        (call.out.rejected <=> ~StatedInvariants(Requested(call.arg)))

\* C19: no assignment to a field of an instance that satisfies the stated
\* invariants yields an instance that violates them.
C19_AssignmentsKeepInvariants ==
    [][(/\ call.op \in {"PrimerParams", "setattr"} /\ call.done /\ ~call.out.rejected
        /\ StatedInvariants(call.out.instance)
        /\ call'.op = "setattr")
          => StatedInvariants(call'.out.instance)]_vars

\* C20: without a backend convert_hg19_to_hg38 returns no chromosome, no
\* position and an error, and looks nothing up; for a locus without mapping
\* it returns no chromosome, no position and another error; the error of a
\* missing backend is returned in no other case.
C20_BackendFaultDistinctFromMiss ==
    (call.op = "convert_hg19_to_hg38" /\ call.done) =>
        /\ call.arg.liftover = "none" =>
              /\ call.out.chromosome = <<>> /\ call.out.position = 0
              /\ call.out.error # NoError
              /\ call.out.lookups = 0
        /\ call.out.backend = "unmapped" =>
              /\ call.out.chromosome = <<>> /\ call.out.position = 0
              /\ call.out.error # NoError
              /\ call.out.lookups = 1
        /\ (call.out.error = NotInitialisedError) <=> (call.arg.liftover = "none")
        /\ \A locus \in Conversions :
              NoMappingError(locus.chromosome, locus.position)
                 # NotInitialisedError

\* C20 witness: a conversion without backend returned the error of the
\* missing backend, and nothing else.
C20_Witness ==
    /\ call.op = "convert_hg19_to_hg38" /\ call.done
    /\ call.arg.liftover = "none" /\ call.arg.chromosome = <<"X">>
    /\ call.out.error = NotInitialisedError /\ call.out.lookups = 0

\* C21: convert_hg19_to_hg38 never raises; it returns either a chromosome and
\* a position, both present, with no error, the chromosome being that of the
\* mapped interval in lower case without "chr", or no chromosome, no position
\* and an error; the error is present exactly when the backend mapped nothing.
C21_ConvertReturnsValueOrError ==
    (call.op = "convert_hg19_to_hg38" /\ call.done) =>
        /\ ~call.out.raises
        /\ \/ /\ call.out.error = NoError
              /\ call.out.chromosome # <<>> /\ call.out.position # 0
              /\ call.out.chromosome
                    = Lower(RemoveChrPrefix(FormatChromosome(call.arg.chromosome)))
           \/ /\ call.out.error # NoError
              /\ call.out.chromosome = <<>> /\ call.out.position = 0
        /\ (call.out.error # NoError) <=> (call.out.backend # "mapped")

\* C21 witness: the backend raised during the lookup and the call returned
\* no chromosome, no position and the error of a failed conversion.
C21_Witness ==
    /\ call.op = "convert_hg19_to_hg38" /\ call.done
    /\ call.out.backend = "raised" /\ ~call.out.raises
    /\ call.out.chromosome = <<>> /\ call.out.position = 0
    /\ call.out.error = ConversionFailedError

\* The stages a run of the pipeline may have gone through for a build: it
\* starts at the first stage and stops at the stage that failed.
PipelineRuns(genome_version) ==
    IF genome_version = "hg19/GRCh37"
    THEN {<<>>, <<"convert_hg19_to_hg38">>,
          <<"convert_hg19_to_hg38", "get_accession">>,
          <<"convert_hg19_to_hg38", "get_accession", "submit_primer_design">>}
    ELSE {<<"get_accession">>, <<"get_accession", "submit_primer_design">>}

\* C22: for each record the pipeline is run at most max_retries times and is
\* not run again after the first success; attempt k is preceded by a sleep of
\* retry_delay * k, none before the first attempt; every attempt runs the
\* pipeline from its first stage, and reaches the submission only through
\* the conversion (on hg19) and the resolution of the accession.
C22_RetriesRerunWholePipeline ==
    /\ [](\A t \in Workers : pc[t] = "attempt" =>
              attempt[t] < max_retries /\ ~retry_log[t].ok)
    /\ [][\A t \in Workers :
            (pc[t] = "attempt" /\ retry_log'[t] # retry_log[t]) =>
               /\ retry_log'[t].sleeps = [k \in 1..attempt[t] |-> retry_delay * k]
               /\ retry_log'[t].stages \in PipelineRuns(args[t].genome_version)
               /\ retry_log'[t].ok =>
                     /\ pc'[t] = "count"
                     /\ retry_log'[t].stages[Len(retry_log'[t].stages)]
                           = "submit_primer_design"
               /\ pc'[t] = "attempt" => attempt'[t] = attempt[t] + 1]_vars

\* C22 witness: the third attempt for an hg19 record succeeded after two
\* failures, after sleeps of 5 and 10, having run the conversion, the
\* resolution of the accession and the submission.
C22_Witness ==
    /\ pc["w1"] = "count" /\ attempt["w1"] = 2
    /\ args["w1"].genome_version = "hg19/GRCh37"
    /\ retry_log["w1"].sleeps = <<5, 10>>
    /\ retry_log["w1"].stages = <<"convert_hg19_to_hg38", "get_accession",
                                  "submit_primer_design">>
    /\ retry_log["w1"].ok

\* The passes and the sleeps of the retry loop among the events of a call.
LoopEvents(trace) == SelectSeq(trace, LAMBDA e : e.op \in {"pass", "sleep"})

\* The retry loop as C23 describes it when the first k passes fail: pass,
\* sleep of RETRY_DELAY, pass, sleep of 2 * RETRY_DELAY, ..., and the pass
\* that succeeds.
FailThenSucceed(k) ==
    [i \in 1..(2 * k + 1) |->
        IF i = 2 * k + 1 THEN Event("pass", TRUE, k)
        ELSE IF i % 2 = 1 THEN Event("pass", FALSE, i \div 2)
        ELSE Event("sleep", TRUE, (i \div 2) * RETRY_DELAY)]

\* The passes of the retry loop that fail before the result tab opens.
FailingPasses(tab_opens) ==
    Cardinality({i \in DOMAIN tab_opens : \A j \in 1..i : ~tab_opens[j]})

\* The page lets submit_primer_design come to its retry loop, and a pass
\* fails only when the result tab does not open.
ReachesLoop(page) ==
    /\ page.driver = "alive"
    /\ page.page_initialized \/ {"one_target_tab", "advanced_button"} \subseteq page.located
    /\ ParameterControls \cup RecordControls \subseteq page.located

\* C23: when the fill/submit sequence fails in the first k passes, k below
\* the number of retries, and succeeds in pass k + 1, submit_primer_design
\* returns success after exactly k + 1 passes, sleeps i * RETRY_DELAY after
\* the i-th failure, and does nothing after the pass that succeeded.
C23_SucceedsAfterTransientFailures ==
    (/\ call.op = "submit_primer_design" /\ call.done
     /\ ReachesLoop(call.arg)
     /\ FailingPasses(call.arg.tab_opens) < submit_max_retries)
       => /\ call.out.ok /\ ~call.out.raises
          /\ LoopEvents(call.out.trace)
                = FailThenSucceed(FailingPasses(call.arg.tab_opens))
          /\ call.out.trace[Len(call.out.trace)].op = "pass"

\* C23 witness: the result tab opened in the third pass only, and the call
\* returned success after sleeps of 5 and 10.
C23_Witness ==
    /\ call.op = "submit_primer_design" /\ call.done
    /\ ReachesLoop(call.arg)
    /\ call.arg.tab_opens = <<FALSE, FALSE, TRUE>>
    /\ call.out.ok
    /\ SelectSeq(call.out.trace, LAMBDA e : e.op = "sleep")
          = <<Event("sleep", TRUE, 5), Event("sleep", TRUE, 10)>>

\* The steps of a call that failed.
FailedSteps(trace) == {i \in DOMAIN trace : ~trace[i].ok}

\* C24: a step of submit_primer_design that raises makes the operation be
\* tried again, submit_max_retries times in all, before the call returns
\* failure; no exception leaves the call.
C24_EveryFailureIsRetried ==
    (/\ call.op = "submit_primer_design" /\ call.done
     /\ call.arg.driver = "alive")
       => /\ ~call.out.raises
          /\ ~call.out.ok =>
                Cardinality(FailedSteps(call.out.trace)) = submit_max_retries

\* C26: a click of the submit control comes after update_parameters has
\* succeeded in the same call; when update_parameters fails the call returns
\* failure and has filled no field of the record and clicked nothing.
C26_SubmitOnlyAfterParametersApplied ==
    (call.op = "submit_primer_design" /\ call.done) =>
        LET trace == call.out.trace
        IN  /\ \A i \in DOMAIN trace :
                  trace[i].op = "click_submit" =>
                     \E j \in 1..(i - 1) : trace[j] = Event("update_parameters", TRUE, 0)
            /\ (\E j \in DOMAIN trace : trace[j] = Event("update_parameters", FALSE, 0)) =>
                  /\ ~call.out.ok
                  /\ call.out.set \cap RecordControls = {}
                  /\ \A i \in DOMAIN trace : trace[i].op \notin {"pass", "click_submit"}

\* C26 witness: a parameter field could not be found on a page on which the
\* record could have been filled and submitted; the call returned failure.
C26_Witness ==
    /\ call.op = "submit_primer_design" /\ call.done
    /\ call.arg.driver = "alive"
    /\ call.arg.located = FormControls \ {"tm_opt"}
    /\ call.arg.tab_opens = <<TRUE, TRUE, TRUE>>
    /\ ~call.out.ok
    /\ call.out.trace[Len(call.out.trace)] = Event("update_parameters", FALSE, 0)

\* C28: setup_driver makes at most retry launch attempts and stops at the
\* first that succeeds; when every attempt fails, as for a browser it does
\* not know, it returns false with neither driver nor page; on success both
\* are there; no exception leaves it.
C28_StartLaunchesAtMostRetries ==
    (call.op = "setup_driver" /\ call.done) =>
        LET launched(i) == call.arg.browser \in SupportedBrowsers /\ call.arg.launch[i]
        IN  /\ ~call.out.raises
            /\ call.out.attempts <= call.arg.retry
            /\ \A i \in 1..call.out.attempts :
                  launched(i) <=> (call.out.ok /\ i = call.out.attempts)
            /\ call.out.ok => Session.driver = "alive" /\ Session.page
            /\ ~call.out.ok =>
                  /\ call.out.attempts = call.arg.retry
                  /\ Session.driver = "none" /\ ~Session.page

\* C28 witness: asked for a browser it does not know while Edge was running,
\* setup_driver made both attempts and returned false without a session.
C28_Witness ==
    /\ call.op = "setup_driver" /\ call.done
    /\ call.arg.session.driver = "alive" /\ call.arg.browser = "Firefox"
    /\ call.arg.retry = 2 /\ call.out.attempts = 2
    /\ ~call.out.ok /\ Session.driver = "none" /\ ~Session.page

\* C25: in one browser initialize_page succeeds at most once; page_initialized
\* is cleared only by a step that tears the session down; a call that fills
\* the form does so in a browser whose page has been initialised, so the
\* first submission after a restart initialises the new page first;
\* page_initialized is never true without a driver.
C25_PageInitialisedOncePerSession ==
    /\ [](/\ Session.inits <= 1
          /\ Session.page_initialized => Session.driver # "none"
          /\ (/\ call.op = "submit_primer_design"
              /\ \E i \in DOMAIN call.out.trace : call.out.trace[i].op = "pass")
                => Session.inits = 1)
    /\ [][(Session.page_initialized /\ ~Session'.page_initialized)
            => /\ Session.driver # "none"
               /\ \/ Session'.driver = "none"
                  \/ call'.op = "setup_driver" /\ call'.out.attempts > 0]_vars

\* C27: ensure_driver_alive does not raise; when the browser answers it
\* returns true and changes nothing; otherwise, with no driver or a ping that
\* fails, it returns false and driver, page and page_initialized are cleared.
C27_EnsureAliveClearsSession ==
    (call.op = "ensure_driver_alive" /\ call.done) =>
        /\ ~call.out.raises
        /\ call.arg.session.driver = "alive" =>
              call.out.ok /\ Session = call.arg.session
        /\ call.arg.session.driver # "alive" =>
              /\ ~call.out.ok
              /\ Session.driver = "none" /\ ~Session.page /\ ~Session.page_initialized

\* The strategies of the key of the call that find the element.
Finding ==
    {i \in 1..Len(StrategiesOf(call.arg.element_key)) :
        call.arg.outcome[StrategiesOf(call.arg.element_key)[i]] = "found"}

\* C29: find_element evaluates the strategies of the key in their configured
\* order, each at most once, returns the element of the first that succeeds
\* and evaluates none after it, and no strategy of another key.
C29_FirstStrategyThatSucceeds ==
    (call.op = "find_element" /\ call.done) =>
        LET strategies == StrategiesOf(call.arg.element_key)
            tried == call.out.tried
        IN  /\ Len(tried) <= Len(strategies)
            /\ \A i \in DOMAIN tried : tried[i] = <<call.arg.element_key, strategies[i]>>
            /\ \A i \in Finding :
                  (\A j \in Finding : i <= j) =>
                     /\ Len(tried) = i
                     /\ call.out.element = <<call.arg.element_key, strategies[i]>>
            /\ Finding = {} => Len(tried) = Len(strategies)

\* C29 witness: the first strategy timed out, the second and the third find
\* the element; the element of the second was returned after two evaluations.
C29_Witness ==
    /\ call.op = "find_element" /\ call.done
    /\ call.arg.element_key = "seq_input"
    /\ call.arg.outcome["ID"] = "timeout"
    /\ call.arg.outcome["NAME"] = "found" /\ call.arg.outcome["CSS_SELECTOR"] = "found"
    /\ call.out.element = <<"seq_input", "NAME">>
    /\ Len(call.out.tried) = 2

\* C30: find_element never raises; it returns None when every strategy of
\* the key times out or fails with any error and when the key has no
\* strategies, and an element exactly when a strategy of the key succeeds.
C30_NoneWhenNothingFound ==
    (call.op = "find_element" /\ call.done) =>
        /\ ~call.out.raises
        /\ (call.out.element # NoElement) <=> (Finding # {})
        /\ StrategiesOf(call.arg.element_key) = <<>> => call.out.element = NoElement

\* C30 witness: a strategy raised an error that is neither a timeout nor a
\* missing element, the other strategies found nothing, and None was returned.
C30_Witness ==
    /\ call.op = "find_element" /\ call.done
    /\ call.arg.element_key = "one_target_tab"
    /\ call.arg.outcome["ID"] = "error" /\ call.arg.outcome["XPATH"] = "timeout"
    /\ Finding = {}
    /\ call.out.element = NoElement /\ ~call.out.raises

\* C31: once _ensure_browser_ready has started the browser and opened the
\* page it returns true, whatever the validation of the page elements
\* reports and also when the validation raises; validate_all_elements
\* returns exactly one boolean for every configured key.
C31_PreflightCheckNotFatal ==
    (call.op = "_ensure_browser_ready" /\ call.done) =>
        /\ ~call.out.raises
        /\ (call.out.started /\ call.out.opened) =>
              /\ call.out.ok
              /\ call.out.validation \in {"passed", "failed", "raised"}
        /\ call.out.validation \in {"passed", "failed"} =>
              /\ DOMAIN call.out.results = ConfiguredKeys
              /\ \A key \in ConfiguredKeys :
                    call.out.results[key] = (key \in call.arg.located)

\* C31 witness: the browser was started and the page opened, the sequence
\* box, a critical element, could not be located, and the check returned true.
C31_Witness ==
    /\ call.op = "_ensure_browser_ready" /\ call.done
    /\ call.out.started /\ call.out.opened
    /\ call.arg.located = FormControls \ {"seq_input"}
    /\ call.out.validation = "failed"
    /\ ~call.out.results["seq_input"]
    /\ call.out.ok

\* The number a range field holds.
FieldNumber(field) == IntValue(call.out[field])

\* C32: for every position and all extensions >= 0 the four range fields are
\* set to max(1, position - extension_left), max(1, position - 20),
\* position + 20 and position + extension_right.
C32_RangeFieldsAsComputed ==
    (call.op = "set_primer_range" /\ call.done) =>
        LET position == call.arg.position
            left == position - call.arg.extension_left
        IN  /\ \A field \in DOMAIN call.out : IntParses(call.out[field])
            /\ FieldNumber("primer5_start") = (IF left >= 1 THEN left ELSE 1)
            /\ FieldNumber("primer5_end") = (IF position - 20 >= 1 THEN position - 20 ELSE 1)
            /\ FieldNumber("primer3_start") = position + 20
            /\ FieldNumber("primer3_end") = position + call.arg.extension_right

\* C32 witness: position 15 with extensions 800 and 10 gave the fields 1, 1,
\* 35 and 25.
C32_Witness ==
    /\ call.op = "set_primer_range" /\ call.done
    /\ call.arg = [position |-> 15, extension_left |-> 800, extension_right |-> 10]
    /\ call.out = [primer5_start |-> <<"1">>, primer5_end |-> <<"1">>,
                   primer3_start |-> <<"3", "5">>, primer3_end |-> <<"2", "5">>]

\* C38: for every position >= 1 and all extensions PrimerParams accepts, the
\* windows are well formed:
\* 1 <= left_start <= left_end < position < right_start <= right_end.
C38_WindowsWellFormed ==
    (call.op = "set_primer_range" /\ call.done /\ call.arg.position >= 1) =>
        /\ 1 <= FieldNumber("primer5_start")
        /\ FieldNumber("primer5_start") <= FieldNumber("primer5_end")
        /\ FieldNumber("primer5_end") < call.arg.position
        /\ call.arg.position < FieldNumber("primer3_start")
        /\ FieldNumber("primer3_start") <= FieldNumber("primer3_end")


\* The latest attempt of the record in flight has been made.
Attempted(t) == pc[t] = "count" \/ (pc[t] = "attempt" /\ attempt[t] > 0)

\* The latest attempt invoked the service function.
Invoked(t, stage) ==
    \E i \in 1..Len(retry_log[t].stages) : retry_log[t].stages[i] = stage

\* C33: conversion is invoked for a record if and only if the build of the
\* batch is hg19; what is submitted after a conversion is the accession of
\* the converted chromosome in the hg38 table and the converted position;
\* what is submitted for an hg38 batch is the accession of the record's own
\* chromosome in the hg38 table and the record's own position.
C33_ConversionIffLegacyBuild ==
    \A t \in Workers : Attempted(t) =>
        LET result == valid_results[t][idx[t] + 1]
            legacy == args[t].genome_version = "hg19/GRCh37"
            converted == Lower(ReplaceChr(FormatChromosome(result.chromosome)))
        IN  /\ Invoked(t, "convert_hg19_to_hg38") <=> legacy
            /\ Invoked(t, "submit_primer_design") =>
                  IF legacy
                  THEN /\ retry_log[t].accession = DictGet(CHR_MAPPING_HG38, converted)
                       /\ retry_log[t].position = LiftedPosition(result.position)
                  ELSE /\ retry_log[t].accession
                             = DictGet(CHR_MAPPING_HG38, Lower(result.chromosome))
                       /\ retry_log[t].position = result.position


\* The records of a call are in the order of the input lines.
InInputOrder(results) ==
    \A i, j \in 1..Len(results) : i < j => results[i].line_number < results[j].line_number

\* C34: within one batch the valid records are in input order and the loop
\* takes them one after the other; the attempt group of a record is entered
\* once, from the head of the loop, and left for the head of the loop only
\* through the count; the count adds one to processed and is followed by the
\* inter-item sleep, after the last record too; the work on a record starts
\* only when every record before it has been counted and slept after.
C34_RecordsInOrderOneAtATime ==
    /\ [](\A t \in Workers : pc[t] \in InLoop =>
              /\ InInputOrder(valid_results[t])
              /\ idx[t] <= Len(valid_results[t])
              /\ pc[t] \in InFlight => idx[t] < Len(valid_results[t])
              /\ stats.processed = idx[t]
              /\ item_sleeps[t] = idx[t])
    /\ [][\A t \in Workers : pc[t] \in InLoop =>
              /\ valid_results'[t] = valid_results[t]
              /\ idx'[t] # idx[t] =>
                    /\ pc[t] = "count" /\ pc'[t] = "loop_head"
                    /\ idx'[t] = idx[t] + 1
                    /\ stats'.processed = stats.processed + 1
                    /\ item_sleeps'[t] = item_sleeps[t] + 1
              /\ (pc'[t] = "check_alive" /\ pc[t] # "check_alive") =>
                    pc[t] = "loop_head" /\ idx'[t] = idx[t]
              /\ (pc[t] \in InFlight /\ pc'[t] = "loop_head") =>
                    pc[t] = "count" /\ idx'[t] = idx[t] + 1]_vars

\* C34 witness: a batch of two records has completed: both were counted and
\* each count was followed by its sleep.
C34_Witness ==
    /\ pc["w1"] = "finish" /\ Len(valid_results["w1"]) = 2
    /\ valid_results["w1"][1].line_number < valid_results["w1"][2].line_number
    /\ idx["w1"] = 2 /\ stats.processed = 2 /\ item_sleeps["w1"] = 2


\* C35: whenever every call of start_batch_processing has returned, the task
\* state is Idle, Completed or Error, so that a new batch can be started.
C35_StateAtRestAllowsStart ==
    (\A t \in Workers : pc[t] \in Rest) =>
        /\ task_state \in {"idle", "completed", "error"}
        /\ can_start_new_task


\* The terminal outcomes a call has notified: completed, stopped or error.
Outcomes(t) == emitted[t] \cap {"task_completed", "task_stopped", "error_occurred"}

\* C36: a call that emitted task_started has, when it returns, notified
\* exactly one of the outcomes completed, stopped and error.
C36_ExactlyOneOutcome ==
    \A t \in Workers :
        (pc[t] = "done" /\ "task_started" \in emitted[t]) =>
            Cardinality(Outcomes(t)) = 1


\* The clicks on the submit control among the events of a call.
SubmitClicks(trace) == SelectSeq(trace, LAMBDA e : e.op = "click_submit")

\* C37: one call of submit_primer_design clicks the submit control at most
\* once: no pass of the retry loop clicks it after an earlier pass did.
C37_SubmitClickedAtMostOnce ==
    (call.op = "submit_primer_design" /\ call.done) =>
        Len(SubmitClicks(call.out.trace)) <= 1


\* C39: every accepted batch terminates: once task_started is emitted the
\* call returns; by then, and at every moment before, it has run the
\* per-record pipeline at most total * max_retries times, at most max_retries
\* times for one record, and each run has made at most submit_max_retries
\* fill-and-submit passes, which makes at most
\* total * max_retries * submit_max_retries passes in all.
C39_AcceptedBatchTerminates ==
    /\ [](\A t \in Workers :
              /\ work[t].runs <= stats.total * max_retries
              /\ work[t].runs <= idx[t] * max_retries + attempt[t] + 1
              /\ work[t].passes <= submit_max_retries
              /\ work[t].runs * submit_max_retries
                    <= stats.total * max_retries * submit_max_retries)
    /\ \A t \in {"w1"} :
          ("task_started" \in emitted[t] /\ pc[t] \notin Rest) ~> (pc[t] = "done")

\* C39 witness: a batch of two records has returned after the largest amount
\* of work: three runs of the pipeline for each record, the last of them
\* with three passes.
C39_Witness ==
    /\ pc["w1"] = "done" /\ "task_started" \in emitted["w1"]
    /\ stats.total = 2 /\ stats.processed = 2 /\ stats.failed = 2
    /\ work["w1"] = [runs |-> 2 * max_retries, passes |-> submit_max_retries]

=============================================================================
